---- MODULE Spec2Model ----
(***************************************************************************)
(* Model of the weighted-scoring and anonymization core of the             *)
(* Online-Peer-Evaluation-Tool backend:                                    *)
(*   app/utils/anonymity.py         (anonymization filter)                 *)
(*   app/utils/weighted_scoring.py  (weighted score calculator)            *)
(*   app/api/v1/forms.py            (form and criterion handlers)          *)
(*   app/api/v1/evaluations.py      (evaluation handlers)                  *)
(*   app/utils/deadline.py          (deadline check)                       *)
(*   app/core/late_submission.py    (late-submission permissions)          *)
(*   app/core/session_timeout.py    (session store)                        *)
(*                                                                         *)
(* Python values are modelled as tagged pairs <<tag, payload>> so that     *)
(* values of different Python types can be compared: None, bool, int, str  *)
(* and dict.  A dict is a function from its keys to tagged values.  A role *)
(* string is a sequence of one-character strings, because the code lowers  *)
(* it character by character (str.lower); every other string is opaque.    *)
(***************************************************************************)
EXTENDS Integers, Sequences, FiniteSets, TLC

VARIABLES
    pc,               \* position of the caller: which call has returned
    requester_role,   \* the role label passed to the filter
    evaluation,       \* argument of anonymize_evaluator
    result,           \* value returned by anonymize_evaluator
    can_view,         \* value returned by _can_view_evaluator_identity
    should_anonymize, \* value returned by should_anonymize_for_user
    report_data,      \* argument of anonymize_report_data (a dict; members are references)
    report_result,    \* value returned by anonymize_report_data
    members_heap,     \* the member dicts the report refers to, by address
    heap_before,      \* members_heap as it was when anonymize_report_data was called
    num_criteria,     \* argument of distribute_weights_evenly
    weights,          \* value returned by distribute_weights_evenly
    criteria,         \* argument of validate_weights
    validation,       \* value returned by validate_weights: <<is_valid, error_message>>
    scores,           \* argument of calculate_weighted_score: [{criterion_id, score}]
    max_score,        \* argument of calculate_weighted_score
    weighted_result,  \* value returned by calculate_weighted_score
    scores_again,     \* scores of a second call for the same criteria and max_score
    weighted_again,   \* value returned by that second call
    importance_levels, \* argument of get_weight_suggestions
    suggestions,      \* value returned by get_weight_suggestions
    evaluation_forms, \* table evaluation_forms: the stored forms
    form_criteria,    \* table form_criteria: the stored criteria
    stored_evaluations, \* table evaluations: the stored evaluations
    evaluation_scores, \* table evaluation_scores: the stored raw scores
    response,         \* HTTP answer of the last request
    writes,           \* number of requests that wrote to the tables
    evaluation_data,  \* the submission submit_evaluation handled last
    form_criteria_id_seq, \* the serial behind form_criteria.id: the last id handed out
    _late_submission_permissions, \* the in-memory permission store
    now,              \* the clock: datetime.now(timezone.utc)
    deadline,         \* argument of is_deadline_passed
    deadline_passed,  \* value returned by is_deadline_passed
    late_allowed,     \* value returned by is_late_submission_allowed
    query_form_id,    \* form_id argument of the last check
    query_user_id,    \* user_id argument of the last check
    late_submission_checker, \* whether is_deadline_passed was given the checker
    late_returned,    \* value returned by the last grant, revoke or cleanup
    _active_sessions, \* the in-memory session store: user_id -> session_data
    session_user_id,  \* user_id argument of the last session call
    session_returned  \* value returned by the last session call

anonVars == <<evaluation, result, can_view, should_anonymize>>
reportVars == <<report_data, report_result, members_heap, heap_before>>
weightVars == <<num_criteria, weights, criteria, validation>>
scoreVars == <<scores, max_score, weighted_result, scores_again, weighted_again>>
suggestVars == <<importance_levels, suggestions>>
storeVars == <<evaluation_forms, form_criteria, stored_evaluations, evaluation_scores, response, writes,
              form_criteria_id_seq, evaluation_data>>
lateVars == <<_late_submission_permissions, now, deadline, deadline_passed, late_allowed,
             query_form_id, query_user_id, late_submission_checker, late_returned>>
sessionVars == <<_active_sessions, session_user_id, session_returned>>
serviceVars == <<scoreVars, suggestVars, storeVars, lateVars, sessionVars>>
vars == <<pc, requester_role, anonVars, reportVars, weightVars, serviceVars>>

(***************************************************************************)
(* Bounds of the model.                                                    *)
(***************************************************************************)
\* Letter positions of a role word whose case is varied freely (the whole
\* word in upper case is always among the variants as well).
CaseBits == 5
\* Longest evaluation list held by one container of a report.
MaxEvals == 2
\* Number of member dicts a report may refer to.
MaxMembers == 2
\* Largest number of criteria passed to distribute_weights_evenly.
MaxCriteria == 12
\* Longest criteria list passed to validate_weights.
MaxWeights == 3
\* Longest criteria list passed to calculate_weighted_score.
MaxScored == 2
\* Longest criteria list passed to get_weight_suggestions.
MaxSuggested == 3

(***************************************************************************)
(* Python values.                                                          *)
(***************************************************************************)
NoneV == <<"none", "None">>
BoolV(b) == <<"bool", b>>
IntV(n) == <<"int", n>>
StrV(s) == <<"str", s>>
DictV(d) == <<"dict", d>>
ListV(l) == <<"list", l>>
\* A reference to a member dict: Python lists hold references, and
\* dict.copy() copies references, not the dicts they point to.
RefV(a) == <<"ref", a>>

EmptyDict == [k \in {} |-> NoneV]

\* d[k] = v on a dict: the key is added when it is missing.
DictSet(d, k, v) == [x \in (DOMAIN d) \cup {k} |-> IF x = k THEN v ELSE d[x]]

\* bool(v) of Python, for the values the filter handles.
Truthy(v) ==
    CASE v[1] = "none" -> FALSE
      [] v[1] = "bool" -> v[2]
      [] v[1] = "str"  -> v[2] # <<>>
      [] v[1] = "int"  -> v[2] # 0
      [] v[1] = "dict" -> DOMAIN v[2] # {}
      [] v[1] = "list" -> v[2] # <<>>
      [] OTHER         -> TRUE

(***************************************************************************)
(* ASCII letters and str.lower().                                          *)
(***************************************************************************)
UpperLetters == <<"A","B","C","D","E","F","G","H","I","J","K","L","M",
                  "N","O","P","Q","R","S","T","U","V","W","X","Y","Z">>
LowerLetters == <<"a","b","c","d","e","f","g","h","i","j","k","l","m",
                  "n","o","p","q","r","s","t","u","v","w","x","y","z">>

LowerChar(c) ==
    IF \E i \in 1..26 : UpperLetters[i] = c
    THEN LowerLetters[CHOOSE i \in 1..26 : UpperLetters[i] = c]
    ELSE c

UpperChar(c) ==
    IF \E i \in 1..26 : LowerLetters[i] = c
    THEN UpperLetters[CHOOSE i \in 1..26 : LowerLetters[i] = c]
    ELSE c

\* s.lower()
Lower(s) == [i \in 1..Len(s) |-> LowerChar(s[i])]

(***************************************************************************)
(* anonymity.py                                                            *)
(***************************************************************************)
\* A privileged list from which "admin" was dropped.
privileged_roles_instructor_only == { <<"i","n","s","t","r","u","c","t","o","r">> }

privileged_roles == { <<"i","n","s","t","r","u","c","t","o","r">>,
                      <<"a","d","m","i","n">> }

\* The decision without .lower(): a case-sensitive comparison.
can_view_case_sensitive(role) ==
    IF ~Truthy(role) THEN role
    ELSE BoolV(role[2] \in privileged_roles)

\* return requester_role and requester_role.lower() in privileged_roles
\* (Python's "and" returns its left operand when that is falsy).
_can_view_evaluator_identity(role) ==
    IF ~Truthy(role) THEN role
    ELSE BoolV(Lower(role[2]) \in privileged_roles)

should_anonymize_for_user(role) ==
    BoolV(~Truthy(_can_view_evaluator_identity(role)))

Sentinel == [id    |-> StrV("anonymous"),
             name  |-> StrV("Anonymous"),
             email |-> StrV("anonymous@hidden.com")]

\* Allow-by-default: redact only for the role "student".
anonymize_evaluator_students_only(ev, role) ==
    LET masked == IF "evaluator" \in DOMAIN ev
                  THEN DictSet(ev, "evaluator", DictV(Sentinel))
                  ELSE ev
        marked == IF "evaluator_id" \in DOMAIN masked
                  THEN DictSet(masked, "evaluator_id_hidden", BoolV(TRUE))
                  ELSE masked
    IN  IF role = StrV(<<"s","t","u","d","e","n","t">>) THEN marked ELSE ev

\* Redaction that also drops the evaluator_id foreign key.
anonymize_evaluator_drops_id(ev, role) ==
    LET masked == IF "evaluator" \in DOMAIN ev
                  THEN DictSet(ev, "evaluator", DictV(Sentinel))
                  ELSE ev
        marked == IF "evaluator_id" \in DOMAIN masked
                  THEN [k \in (DOMAIN masked \ {"evaluator_id"}) \cup {"evaluator_id_hidden"} |->
                          IF k = "evaluator_id_hidden" THEN BoolV(TRUE) ELSE masked[k]]
                  ELSE masked
    IN  IF ~Truthy(_can_view_evaluator_identity(role)) THEN marked ELSE ev

\* The marker assignment indented under the "evaluator" branch.
anonymize_evaluator_marker_nested(ev, role) ==
    LET marked == IF "evaluator_id" \in DOMAIN ev
                  THEN DictSet(ev, "evaluator_id_hidden", BoolV(TRUE))
                  ELSE ev
        masked == IF "evaluator" \in DOMAIN ev
                  THEN DictSet(marked, "evaluator", DictV(Sentinel))
                  ELSE ev
    IN  IF ~Truthy(_can_view_evaluator_identity(role)) THEN masked ELSE ev

\* The marker records whether this very call replaced a real evaluator.
anonymize_evaluator_marks_redaction(ev, role) ==
    LET masked == IF "evaluator" \in DOMAIN ev
                  THEN DictSet(ev, "evaluator", DictV(Sentinel))
                  ELSE ev
        marked == IF "evaluator_id" \in DOMAIN masked
                  THEN DictSet(masked, "evaluator_id_hidden", BoolV(masked # ev))
                  ELSE masked
    IN  IF ~Truthy(_can_view_evaluator_identity(role)) THEN marked ELSE ev

anonymize_evaluator(ev, role) ==
    LET copy == ev
        can_view_evaluator == _can_view_evaluator_identity(role)
        masked == IF "evaluator" \in DOMAIN copy
                  THEN DictSet(copy, "evaluator", DictV(Sentinel))
                  ELSE copy
        marked == IF "evaluator_id" \in DOMAIN masked
                  THEN DictSet(masked, "evaluator_id_hidden", BoolV(TRUE))
                  ELSE masked
    IN  IF ~Truthy(can_view_evaluator) THEN marked ELSE copy

\* [anonymize_evaluator(e, ...) for e in evaluations]
anonymize_evaluation_list(evaluations, role) ==
    [i \in 1..Len(evaluations) |-> anonymize_evaluator(evaluations[i], role)]

\* for member_data in members: if "evaluations" in member_data:
\*     member_data["evaluations"] = anonymize_evaluation_list(...)
\* The member dicts are the caller's own objects: the assignment writes the heap.
RECURSIVE AnonymizeMembers(_, _, _)
AnonymizeMembers(refs, heap, role) ==
    IF refs = <<>> THEN heap
    ELSE LET a == Head(refs)[2]
             member_data == heap[a]
             written ==
                IF "evaluations" \in DOMAIN member_data
                THEN [heap EXCEPT ![a] = DictSet(member_data, "evaluations",
                        ListV(anonymize_evaluation_list(member_data["evaluations"][2], role)))]
                ELSE heap
         IN  AnonymizeMembers(Tail(refs), written, role)

\* for team_data in teams: if "members" in team_data: (the member loop)
RECURSIVE AnonymizeTeams(_, _, _)
AnonymizeTeams(teams, heap, role) ==
    IF teams = <<>> THEN heap
    ELSE LET team_data == Head(teams)
             written ==
                IF "members" \in DOMAIN team_data
                THEN AnonymizeMembers(team_data["members"][2], heap, role)
                ELSE heap
         IN  AnonymizeTeams(Tail(teams), written, role)

\* A filter of every top-level key that holds a list of records.
AnonymizeTopLevelAnyKey(report, role) ==
    [k \in DOMAIN report |->
        IF k \notin {"members", "teams"} /\ report[k][1] = "list"
        THEN ListV(anonymize_evaluation_list(report[k][2], role))
        ELSE report[k]]

\* The top-level containers of the shallow copy.
AnonymizeTopLevel(report, role) ==
    LET copy == report
        r1 == IF "evaluations" \in DOMAIN copy
              THEN DictSet(copy, "evaluations",
                     ListV(anonymize_evaluation_list(copy["evaluations"][2], role)))
              ELSE copy
        r2 == IF "detailed_evaluations" \in DOMAIN r1
              THEN DictSet(r1, "detailed_evaluations",
                     ListV(anonymize_evaluation_list(r1["detailed_evaluations"][2], role)))
              ELSE r1
    IN  r2

\* The report filter without the loop over teams.
anonymize_report_data_skips_teams(report, heap, role) ==
    LET res == AnonymizeTopLevel(report, role)
        h1 == IF "members" \in DOMAIN res
              THEN AnonymizeMembers(res["members"][2], heap, role)
              ELSE heap
    IN  [result |-> res, heap |-> h1]

\* anonymize_report_data: the returned dict and the heap it leaves behind.
anonymize_report_data(report, heap, role) ==
    LET res == AnonymizeTopLevel(report, role)
        h1 == IF "members" \in DOMAIN res
              THEN AnonymizeMembers(res["members"][2], heap, role)
              ELSE heap
        h2 == IF "teams" \in DOMAIN res
              THEN AnonymizeTeams(res["teams"][2], h1, role)
              ELSE h1
    IN  [result |-> res, heap |-> h2]

(***************************************************************************)
(* decimal.Decimal, as weighted_scoring.py uses it: a sign, a coefficient  *)
(* (a sequence of decimal digits, most significant first, as Decimal._int) *)
(* and an exponent, under the default context (precision 28, rounding      *)
(* ROUND_HALF_EVEN).  Coefficients do not fit a machine integer, so their  *)
(* arithmetic is done digit by digit.                                      *)
(***************************************************************************)
\* getcontext().prec of the default context
DecimalPrec == 28

Max(a, b) == IF a >= b THEN a ELSE b
Min(a, b) == IF a <= b THEN a ELSE b

\* sum() of a list of ints
RECURSIVE SumInts(_)
SumInts(s) == IF s = <<>> THEN 0 ELSE Head(s) + SumInts(Tail(s))

Zeros(k) == [i \in 1..k |-> 0]

\* a coefficient without leading zeros ("0" for zero)
Strip(d) ==
    LET nonzero == { i \in 1..Len(d) : d[i] # 0 }
    IN  IF nonzero = {} THEN <<0>>
        ELSE SubSeq(d, CHOOSE i \in nonzero : \A j \in nonzero : i <= j, Len(d))

PadLeft(d, n) == Zeros(n - Len(d)) \o d

\* a + b on coefficients: digit i receives a carry when some digit to its
\* right overflows and every digit in between sums to 9.
NatAdd(a, b) ==
    LET n == Max(Len(a), Len(b))
        x == PadLeft(a, n)
        y == PadLeft(b, n)
        carry(i) == \E j \in (i + 1)..n :
                       /\ x[j] + y[j] >= 10
                       /\ \A k \in (i + 1)..(j - 1) : x[k] + y[k] = 9
        c(i) == IF carry(i) THEN 1 ELSE 0
    IN  Strip([i \in 1..(n + 1) |->
                 IF i = 1 THEN c(0) ELSE (x[i - 1] + y[i - 1] + c(i - 1)) % 10])

\* a - b on coefficients, for a >= b: digit i lends when some digit to its
\* right is too small and every digit in between is equal.
NatSub(a, b) ==
    LET n == Max(Len(a), Len(b))
        x == PadLeft(a, n)
        y == PadLeft(b, n)
        borrow(i) == \E j \in (i + 1)..n :
                        /\ x[j] < y[j]
                        /\ \A k \in (i + 1)..(j - 1) : x[k] = y[k]
        w(i) == IF borrow(i) THEN 1 ELSE 0
    IN  Strip([i \in 1..n |-> (x[i] - y[i] - w(i) + 10) % 10])

\* a < b on coefficients
NatLess(a, b) ==
    LET x == Strip(a)
        y == Strip(b)
    IN  \/ Len(x) < Len(y)
        \/ /\ Len(x) = Len(y)
           /\ \E i \in 1..Len(x) : x[i] < y[i] /\ \A k \in 1..(i - 1) : x[k] = y[k]

\* A coefficient cut into groups of four digits (most significant first),
\* each group as a machine integer, and back.
Limbs(a) ==
    LET n == (Len(a) + 3) \div 4
        x == PadLeft(a, 4 * n)
    IN  [k \in 1..n |-> x[4 * k - 3] * 1000 + x[4 * k - 2] * 100 + x[4 * k - 1] * 10 + x[4 * k]]

LimbDigits(ls) ==
    [i \in 1..(4 * Len(ls)) |-> (ls[(i + 3) \div 4] \div <<1000, 100, 10, 1>>[((i - 1) % 4) + 1]) % 10]

\* divmod(a, n) for a coefficient a and a machine integer n: long division,
\* four digits at a time
NatDivMod(a, n) ==
    LET ls == Limbs(a)
        rem[i \in 0..Len(ls)] == IF i = 0 THEN 0 ELSE (rem[i - 1] * 10000 + ls[i]) % n
    IN  [q |-> Strip(LimbDigits([i \in 1..Len(ls) |-> (rem[i - 1] * 10000 + ls[i]) \div n])),
         r |-> rem[Len(ls)]]

\* str(n) for a machine integer n >= 0, as digits
RECURSIVE IntDigits(_)
IntDigits(n) == IF n < 10 THEN <<n>> ELSE IntDigits(n \div 10) \o <<n % 10>>

\* int(digits), for a coefficient that fits a machine integer
RECURSIVE DigitsInt(_)
DigitsInt(d) ==
    IF d = <<>> THEN 0 ELSE DigitsInt(SubSeq(d, 1, Len(d) - 1)) * 10 + d[Len(d)]

Dec(sign, coef, exp) == [sign |-> sign, coef |-> coef, exp |-> exp]

\* Decimal(str(n)) for an int n
DecFromInt(n) ==
    IF n < 0 THEN Dec(1, IntDigits(-n), 0) ELSE Dec(0, IntDigits(n), 0)

Dec100 == Dec(0, <<1, 0, 0>>, 0)      \* Decimal('100')
Dec0 == Dec(0, <<0>>, 0)              \* Decimal('0'), Decimal(str(0))
DecTolerance == Dec(0, <<1>>, -2)     \* Decimal('0.01')

IsZero(d) == d.coef = <<0>>

AllZero(d) == \A i \in 1..Len(d) : d[i] = 0

\* Decimal._round_half_up / _round_half_even on the digits after the first
\* keep: 1 round up, 0 exact, -1 round down.
RoundHalfUp(coef, keep) ==
    IF coef[keep + 1] >= 5 THEN 1
    ELSE IF AllZero(SubSeq(coef, keep + 1, Len(coef))) THEN 0
    ELSE -1

RoundHalfEven(coef, keep) ==
    IF /\ coef[keep + 1] = 5
       /\ AllZero(SubSeq(coef, keep + 2, Len(coef)))
       /\ (keep = 0 \/ coef[keep] % 2 = 0)
    THEN -1
    ELSE RoundHalfUp(coef, keep)

\* coef[:keep] or '0', plus one when the rounding says up
Rounded(coef, keep, changed) ==
    LET kept == IF keep = 0 THEN <<0>> ELSE SubSeq(coef, 1, keep)
    IN  IF changed = 1 THEN NatAdd(kept, <<1>>) ELSE kept

\* Decimal._fix: round to the context's precision (ROUND_HALF_EVEN)
DecFix(d) ==
    IF IsZero(d) \/ Len(d.coef) <= DecimalPrec THEN d
    ELSE LET exp_min == Len(d.coef) + d.exp - DecimalPrec
             coeff == Rounded(d.coef, DecimalPrec, RoundHalfEven(d.coef, DecimalPrec))
         IN  IF Len(coeff) > DecimalPrec
             THEN Dec(d.sign, SubSeq(coeff, 1, Len(coeff) - 1), exp_min + 1)
             ELSE Dec(d.sign, coeff, exp_min)

\* Decimal._rescale(exp, rounding) with the rounding ROUND_HALF_UP or the
\* context's ROUND_HALF_EVEN
DecRescale(d, exp, half_up) ==
    IF IsZero(d) THEN Dec(d.sign, <<0>>, exp)
    ELSE IF d.exp >= exp THEN Dec(d.sign, d.coef \o Zeros(d.exp - exp), exp)
    ELSE LET digits == Len(d.coef) + d.exp - exp
             self == IF digits < 0 THEN <<1>> ELSE d.coef
             keep == IF digits < 0 THEN 0 ELSE digits
             changed == IF half_up THEN RoundHalfUp(self, keep) ELSE RoundHalfEven(self, keep)
         IN  Dec(d.sign, Rounded(self, keep, changed), exp)

\* d.quantize(Decimal('0.01'), rounding=ROUND_HALF_UP)
Quantize2(d) == DecRescale(d, -2, TRUE)

\* decimal._normalize: bring two operands to one exponent; an operand too
\* small to matter at the precision is replaced by 1 at a low exponent.
DecNormalize(a, b) ==
    LET tmp == IF a.exp < b.exp THEN b ELSE a
        other == IF a.exp < b.exp THEN a ELSE b
        exp == tmp.exp + Min(-1, Len(tmp.coef) - DecimalPrec - 2)
        other2 == IF Len(other.coef) + other.exp - 1 < exp
                  THEN Dec(other.sign, <<1>>, exp) ELSE other
        tmp2 == Dec(tmp.sign, tmp.coef \o Zeros(tmp.exp - other2.exp), other2.exp)
    IN  IF a.exp < b.exp THEN <<other2, tmp2>> ELSE <<tmp2, other2>>

\* Decimal.__add__
DecAdd(a, b) ==
    LET exp == Min(a.exp, b.exp)
    IN  IF IsZero(a) /\ IsZero(b) THEN DecFix(Dec(Min(a.sign, b.sign), <<0>>, exp))
        ELSE IF IsZero(a)
             THEN DecFix(DecRescale(b, Max(exp, b.exp - DecimalPrec - 1), FALSE))
        ELSE IF IsZero(b)
             THEN DecFix(DecRescale(a, Max(exp, a.exp - DecimalPrec - 1), FALSE))
        ELSE LET ops == DecNormalize(a, b)
                 op1 == ops[1]
                 op2 == ops[2]
             IN  IF op1.sign = op2.sign
                 THEN DecFix(Dec(op1.sign, NatAdd(op1.coef, op2.coef), op1.exp))
                 ELSE IF Strip(op1.coef) = Strip(op2.coef) THEN DecFix(Dec(0, <<0>>, exp))
                 ELSE IF NatLess(op1.coef, op2.coef)
                      THEN DecFix(Dec(op2.sign, NatSub(op2.coef, op1.coef), op1.exp))
                      ELSE DecFix(Dec(op1.sign, NatSub(op1.coef, op2.coef), op1.exp))

\* Decimal.__sub__ (self + other.copy_negate()) and __abs__
DecSub(a, b) == DecAdd(a, Dec(1 - b.sign, b.coef, b.exp))
DecAbs(a) == DecFix(Dec(0, a.coef, a.exp))

\* Decimal._cmp: -1, 0 or 1
DecCmp(a, b) ==
    IF IsZero(a) /\ IsZero(b) THEN 0
    ELSE IF IsZero(a) THEN (IF b.sign = 1 THEN 1 ELSE -1)
    ELSE IF IsZero(b) THEN (IF a.sign = 1 THEN -1 ELSE 1)
    ELSE IF a.sign # b.sign THEN (IF a.sign = 1 THEN -1 ELSE 1)
    ELSE LET e == Min(a.exp, b.exp)
             x == a.coef \o Zeros(a.exp - e)
             y == b.coef \o Zeros(b.exp - e)
             mag == IF NatLess(x, y) THEN -1 ELSE IF NatLess(y, x) THEN 1 ELSE 0
         IN  IF a.sign = 1 THEN -mag ELSE mag

\* Decimal.__truediv__ by a Decimal made from a positive machine integer n
DecDivInt(a, n) ==
    LET other == IntDigits(n)
        shift == Len(other) - Len(a.coef) + DecimalPrec + 1
        qr == NatDivMod(a.coef \o Zeros(shift), n)
        exp == a.exp - shift
        \* inexact: keep the rounding of _fix correct
        inexact == IF qr.q[Len(qr.q)] % 5 = 0 THEN NatAdd(qr.q, <<1>>) ELSE qr.q
        \* exact: strip zeros up to the ideal exponent
        strip == CHOOSE k \in 0..(Len(qr.q) - 1) :
                    /\ k <= shift
                    /\ AllZero(SubSeq(qr.q, Len(qr.q) - k + 1, Len(qr.q)))
                    /\ (k = shift \/ qr.q[Len(qr.q) - k] # 0)
    IN  IF IsZero(a) THEN Dec(0, <<0>>, a.exp)
        ELSE IF qr.r # 0 THEN DecFix(Dec(a.sign, inexact, exp))
        ELSE DecFix(Dec(a.sign, SubSeq(qr.q, 1, Len(qr.q) - strip), exp + strip))

\* a * m for a coefficient a and a machine integer m >= 0, four digits at a time
NatMulInt(a, m) ==
    LET ls == Limbs(a)
        n == Len(ls)
        carry[i \in 0..n] == IF i = 0 THEN 0 ELSE (ls[n - i + 1] * m + carry[i - 1]) \div 10000
    IN  Strip(IntDigits(carry[n]) \o
              LimbDigits([i \in 1..n |-> (ls[i] * m + carry[n - i]) % 10000]))

\* Decimal.__mul__; one of the coefficients fits a machine integer
DecMul(a, b) ==
    LET sign == (a.sign + b.sign) % 2
        exp == a.exp + b.exp
    IN  IF IsZero(a) \/ IsZero(b) THEN DecFix(Dec(sign, <<0>>, exp))
        ELSE IF Len(b.coef) <= Len(a.coef)
             THEN DecFix(Dec(sign, NatMulInt(a.coef, DigitsInt(b.coef)), exp))
             ELSE DecFix(Dec(sign, NatMulInt(b.coef, DigitsInt(a.coef)), exp))

\* Decimal.__truediv__ for a non-zero divisor whose coefficient fits a
\* machine integer (operands hold at most DecimalPrec digits, so shift >= 0)
DecDiv(a, b) ==
    LET sign == (a.sign + b.sign) % 2
        shift == Len(b.coef) - Len(a.coef) + DecimalPrec + 1
        qr == NatDivMod(a.coef \o Zeros(shift), DigitsInt(b.coef))
        exp == a.exp - b.exp - shift
        inexact == IF qr.q[Len(qr.q)] % 5 = 0 THEN NatAdd(qr.q, <<1>>) ELSE qr.q
        strip == CHOOSE k \in 0..(Len(qr.q) - 1) :
                    /\ k <= shift
                    /\ AllZero(SubSeq(qr.q, Len(qr.q) - k + 1, Len(qr.q)))
                    /\ (k = shift \/ qr.q[Len(qr.q) - k] # 0)
    IN  IF IsZero(a) THEN DecFix(Dec(sign, <<0>>, a.exp - b.exp))
        ELSE IF qr.r # 0 THEN DecFix(Dec(sign, inexact, exp))
        ELSE DecFix(Dec(sign, SubSeq(qr.q, 1, Len(qr.q) - strip), exp + strip))

\* sum(weights): Python starts from the int 0
RECURSIVE DecSumFrom(_, _)
DecSumFrom(acc, ws) == IF ws = <<>> THEN acc ELSE DecSumFrom(DecAdd(acc, Head(ws)), Tail(ws))

DecSum(ws) == DecSumFrom(Dec0, ws)

(***************************************************************************)
(* weighted_scoring.py                                                     *)
(***************************************************************************)
\* A weight as a caller supplies it: a decimal numeral, the text str(weight)
\* gives for an int (no fraction digits) or a float.
Numeral(neg, ip, fp) == [neg |-> neg, ip |-> ip, fp |-> fp]

\* Decimal(str(weight))
DecFromStr(num) ==
    Dec(IF num.neg THEN 1 ELSE 0, Strip(num.ip \o num.fp), -Len(num.fp))

\* Decimal(str(c.get('weight', 0)))
WeightOf(c) == IF "weight" \in DOMAIN c THEN DecFromStr(c["weight"]) ELSE Dec0

\* The tolerance test written with >= instead of >.
validate_weights_tolerance_exclusive(cs) ==
    IF cs = <<>> THEN <<FALSE, <<"No criteria provided">> >>
    ELSE
    LET total_weight == DecSum([i \in 1..Len(cs) |-> WeightOf(cs[i])])
        bad == { i \in 1..Len(cs) :
                    \/ DecCmp(WeightOf(cs[i]), Dec0) = -1
                    \/ DecCmp(WeightOf(cs[i]), Dec100) = 1 }
    IN  IF DecCmp(DecAbs(DecSub(total_weight, Dec100)), DecTolerance) >= 0
        THEN <<FALSE, <<"Weights must sum to 100%. Current sum: ", total_weight, "%">> >>
        ELSE IF bad = {} THEN <<TRUE, <<>> >>
        ELSE <<FALSE, <<"Criterion ", CHOOSE j \in bad : \A k \in bad : j <= k,
                        " has an invalid weight">> >>

validate_weights(cs) ==
    IF cs = <<>> THEN <<FALSE, <<"No criteria provided">> >>
    ELSE
    LET total_weight == DecSum([i \in 1..Len(cs) |-> WeightOf(cs[i])])
        bad == { i \in 1..Len(cs) :
                    \/ DecCmp(WeightOf(cs[i]), Dec0) = -1
                    \/ DecCmp(WeightOf(cs[i]), Dec100) = 1 }
    IN  IF DecCmp(DecAbs(DecSub(total_weight, Dec100)), DecTolerance) = 1
        THEN <<FALSE, <<"Weights must sum to 100%. Current sum: ", total_weight, "%">> >>
        ELSE IF bad = {} THEN <<TRUE, <<>> >>
        ELSE LET i == CHOOSE j \in bad : \A k \in bad : j <= k
                 weight == WeightOf(cs[i])
             IN  IF DecCmp(weight, Dec0) = -1
                 THEN <<FALSE, <<"Criterion ", i, " has negative weight: ", weight, "%">> >>
                 ELSE <<FALSE, <<"Criterion ", i, " has weight exceeding 100%: ", weight, "%">> >>

distribute_weights_evenly(n) ==
    IF n <= 0 THEN <<>>
    ELSE
    LET base_weight == DecDivInt(Dec100, n)
        ws == [i \in 1..n |-> base_weight]
        total == DecSum(ws)
        adjusted == IF DecCmp(total, Dec100) # 0
                    THEN [ws EXCEPT ![1] = DecAdd(ws[1], DecSub(Dec100, total))]
                    ELSE ws
    IN  [i \in 1..n |-> Quantize2(adjusted[i])]

\* score_map = {s['criterion_id']: s['score'] for s in scores} followed by
\* score_map.get(criterion_id, 0): a later entry replaces an earlier one.
ScoreOf(scs, id) ==
    LET at == { i \in 1..Len(scs) : scs[i].criterion_id = id }
    IN  IF at = {} THEN 0
        ELSE scs[CHOOSE i \in at : \A j \in at : j <= i].score

\* criterion.get('max_points', 0) and criterion.get('text', '')
MaxPointsOf(c) == IF "max_points" \in DOMAIN c THEN c["max_points"] ELSE 0
TextOf(c) == IF "text" \in DOMAIN c THEN c["text"] ELSE StrV("")

\* float(d) for a Decimal quantized to two places: the float is held as the
\* number of hundredths it stands for (floats of distinct two-decimal values
\* are distinct and ordered alike; -0.0 equals 0.0).
Float2(d) == IF d.sign = 1 THEN -DigitsInt(d.coef) ELSE DigitsInt(d.coef)

\* n / d rounded to an integer, ties to even (d > 0)
RoundDivHalfEven(n, d) ==
    LET q == n \div d
        r == n % d
    IN  IF 2 * r < d THEN q
        ELSE IF 2 * r > d THEN q + 1
        ELSE IF q % 2 = 0 THEN q ELSE q + 1

\* round((final_score / max_score * 100) if max_score > 0 else 0, 2), in
\* hundredths of a percent; final_score is given in hundredths.
Percentage(final_score, ms) ==
    IF ms > 0 THEN RoundDivHalfEven(final_score * 100, ms) ELSE 0

\* The normalization without its guard on max_points: a criterion whose
\* max_points is not positive is normalized as if it were worth one point.
WeightedValueUnguarded(scs, c, ms) ==
    LET weight == WeightOf(c)
        max_points == DecFromInt(MaxPointsOf(c))
        score == DecFromInt(ScoreOf(scs, c["id"]))
        normalized_score == IF DecCmp(max_points, Dec0) = 1
                            THEN DecDiv(score, max_points)
                            ELSE score
    IN  DecMul(DecMul(normalized_score, DecDiv(weight, Dec100)), DecFromInt(ms))

\* normalized_score * (weight / Decimal('100')) * Decimal(str(max_score))
WeightedValue(scs, c, ms) ==
    LET weight == WeightOf(c)
        max_points == DecFromInt(MaxPointsOf(c))
        score == DecFromInt(ScoreOf(scs, c["id"]))
        normalized_score == IF DecCmp(max_points, Dec0) = 1
                            THEN DecDiv(score, max_points)
                            ELSE Dec0
    IN  DecMul(DecMul(normalized_score, DecDiv(weight, Dec100)), DecFromInt(ms))

\* weighted_breakdown.append({...}) for a criterion and its weighted_value
BreakdownEntry(scs, c, weighted_value) ==
    [criterion_id   |-> c["id"],
     criterion_text |-> TextOf(c),
     raw_score      |-> ScoreOf(scs, c["id"]),
     max_points     |-> MaxPointsOf(c),
     weight         |-> WeightOf(c),
     weighted_score |-> Float2(Quantize2(weighted_value))]

\* The loop runs over the scores instead of the criteria: a criterion
\* without a submitted score gets no breakdown entry.
calculate_weighted_score_over_scores(scs, cs, ms) ==
    LET scored == SelectSeq(cs, LAMBDA c : \E i \in 1..Len(scs) : scs[i].criterion_id = c["id"])
        values == [i \in 1..Len(scored) |-> WeightedValue(scs, scored[i], ms)]
        final_score == Float2(Quantize2(DecSumFrom(Dec0, values)))
    IN  [weighted_total |-> final_score,
         breakdown      |-> [i \in 1..Len(scored) |-> BreakdownEntry(scs, scored[i], values[i])],
         percentage     |-> Percentage(final_score, ms),
         max_score      |-> ms]

\* The weight taken as a fraction instead of a percentage (no division by 100).
calculate_weighted_score_weight_fraction(scs, cs, ms) ==
    LET values == [i \in 1..Len(cs) |-> DecMul(WeightedValue(scs, cs[i], ms), Dec100)]
        final_score == Float2(Quantize2(DecSumFrom(Dec0, values)))
    IN  [weighted_total |-> final_score,
         breakdown      |-> [i \in 1..Len(cs) |-> BreakdownEntry(scs, cs[i], values[i])],
         percentage     |-> Percentage(final_score, ms),
         max_score      |-> ms]

\* The score normalized the wrong way round: max_points / score.
calculate_weighted_score_inverted(scs, cs, ms) ==
    LET value(c) ==
            LET score == ScoreOf(scs, c["id"])
            IN  IF score > 0 /\ MaxPointsOf(c) > 0
                THEN DecMul(DecMul(DecDiv(DecFromInt(MaxPointsOf(c)), DecFromInt(score)),
                                   DecDiv(WeightOf(c), Dec100)), DecFromInt(ms))
                ELSE Dec0
        values == [i \in 1..Len(cs) |-> value(cs[i])]
        final_score == Float2(Quantize2(DecSumFrom(Dec0, values)))
    IN  [weighted_total |-> final_score,
         breakdown      |-> [i \in 1..Len(cs) |-> BreakdownEntry(scs, cs[i], values[i])],
         percentage     |-> Percentage(final_score, ms),
         max_score      |-> ms]

calculate_weighted_score(scs, cs, ms) ==
    LET values == [i \in 1..Len(cs) |-> WeightedValue(scs, cs[i], ms)]
        weighted_sum == DecSumFrom(Dec0, values)
        final_score == Float2(Quantize2(weighted_sum))
    IN  [weighted_total |-> final_score,
         breakdown      |-> [i \in 1..Len(cs) |-> BreakdownEntry(scs, cs[i], values[i])],
         percentage     |-> Percentage(final_score, ms),
         max_score      |-> ms]

\* An exception leaving a function instead of a returned value.
Raise(e) == <<"raise", e>>

\* importance_multipliers.get(importance, Decimal('1')) for
\* importance = importance_levels.get(criterion['id'], 'medium')
ImportanceMultiplier(levels, c) ==
    LET importance == IF c["id"] \in DOMAIN levels THEN levels[c["id"]] ELSE "medium"
    IN  CASE importance = "high"   -> Dec(0, <<2>>, 0)       \* Decimal('2')
          [] importance = "medium" -> Dec(0, <<1>>, 0)       \* Decimal('1')
          [] importance = "low"    -> Dec(0, <<5>>, -1)      \* Decimal('0.5')
          [] OTHER                 -> Dec(0, <<1>>, 0)

get_weight_suggestions(cs, importance) ==
    IF ~Truthy(importance) THEN distribute_weights_evenly(Len(cs))
    ELSE
    LET levels == importance[2]
        total_units == DecSumFrom(Dec0, [i \in 1..Len(cs) |-> ImportanceMultiplier(levels, cs[i])])
        ws == [i \in 1..Len(cs) |->
                 Quantize2(DecMul(DecDiv(ImportanceMultiplier(levels, cs[i]), total_units), Dec100))]
        total == DecSum(ws)
    IN  IF DecCmp(total, Dec100) = 0 THEN ws
        ELSE IF ws = <<>> THEN Raise("IndexError")           \* weights[0] of an empty list
        ELSE [ws EXCEPT ![1] = DecAdd(ws[1], DecSub(Dec100, total))]

(***************************************************************************)
(* Inputs: role labels and evaluation records.                             *)
(***************************************************************************)
RoleWords == { <<"i","n","s","t","r","u","c","t","o","r">>,
               <<"a","d","m","i","n">>,
               <<"s","t","u","d","e","n","t">>,
               <<"a","d","m","i","n","s">>,
               <<"a","d","m">>,
               <<"u","n","k","n","o","w","n","_","r","o","l","e">>,
               <<>> }

CaseMasks == (SUBSET (1..CaseBits)) \cup {1..12}

WithCase(w, mask) == [i \in 1..Len(w) |-> IF i \in mask THEN UpperChar(w[i]) ELSE w[i]]

Roles == {NoneV} \cup { StrV(WithCase(w, m)) : w \in RoleWords, m \in CaseMasks }

John == [id |-> IntV(123), name |-> StrV("John Doe"), email |-> StrV("john@example.com")]
Alice == [id |-> IntV(456), name |-> StrV("Alice"), email |-> StrV("alice@example.com")]

Opt(k, choices) == {EmptyDict} \cup { k :> v : v \in choices }

\* Evaluation records as the read paths hand them to the filter; any of the
\* evaluator, evaluator_id, total_score and comments keys may be missing, and
\* the evaluator may be null; the record carries either only its ids or the
\* whole schema (evaluatee, team_id, scores).
RestOfRecord ==
    ("evaluatee" :> DictV(Alice)) @@ ("team_id" :> IntV(7)) @@
    ("scores" :> ListV(<<IntV(4), IntV(5)>>))

EvaluationRecords ==
    { ("id" :> IntV(1)) @@ ("evaluatee_id" :> IntV(456)) @@ a @@ b @@ c @@ d @@ e :
        a \in Opt("evaluator_id", {IntV(123)}),
        b \in Opt("evaluator", {DictV(John), NoneV}),
        c \in Opt("total_score", {IntV(85)}),
        d \in Opt("comments", {StrV("Great work!")}),
        e \in {EmptyDict, RestOfRecord} }

NoResult == <<"noresult", "-">>

\* The variables of the parts of the backend a caller is not using.
ScoreIdle ==
    /\ scores = <<>>
    /\ max_score = 0
    /\ weighted_result = NoResult
    /\ scores_again = <<>>
    /\ weighted_again = NoResult

SuggestIdle ==
    /\ importance_levels = NoneV
    /\ suggestions = NoResult

StoreIdle ==
    /\ evaluation_forms = <<>>
    /\ form_criteria = <<>>
    /\ stored_evaluations = <<>>
    /\ evaluation_scores = <<>>
    /\ response = NoResult
    /\ writes = 0
    /\ form_criteria_id_seq = 0
    /\ evaluation_data = NoneV

LateIdle ==
    /\ _late_submission_permissions = <<>>
    /\ now = 0
    /\ deadline = NoneV
    /\ deadline_passed = NoResult
    /\ late_allowed = NoResult
    /\ query_form_id = NoneV
    /\ query_user_id = NoneV
    /\ late_submission_checker = FALSE
    /\ late_returned = NoResult

SessionIdle ==
    /\ _active_sessions = <<>>
    /\ session_user_id = NoneV
    /\ session_returned = NoResult

ServiceIdle == ScoreIdle /\ SuggestIdle /\ StoreIdle /\ LateIdle /\ SessionIdle

(***************************************************************************)
(* The single-record filter as a state machine: a caller holds a role and  *)
(* a record, asks for the permission decision, filters the record, and may *)
(* pass the filtered record through the filter once more.                  *)
(***************************************************************************)
InitAnon ==
    /\ pc = "ready"
    /\ requester_role \in Roles
    /\ evaluation \in EvaluationRecords
    /\ result = NoResult
    /\ can_view = NoResult
    /\ should_anonymize = NoResult
    /\ report_data = EmptyDict
    /\ report_result = NoResult
    /\ members_heap = <<>>
    /\ heap_before = <<>>
    /\ num_criteria = 0
    /\ weights = <<>>
    /\ criteria = <<>>
    /\ validation = NoResult
    /\ ServiceIdle

CheckRole ==
    /\ pc = "ready"
    /\ can_view' = _can_view_evaluator_identity(requester_role)
    /\ should_anonymize' = should_anonymize_for_user(requester_role)
    /\ pc' = "checked"
    /\ UNCHANGED <<requester_role, evaluation, result, reportVars, weightVars, serviceVars>>

AnonymizeEvaluator ==
    /\ pc \in {"ready", "checked"}
    /\ result' = anonymize_evaluator(evaluation, requester_role)
    /\ pc' = "returned"
    /\ UNCHANGED <<requester_role, evaluation, can_view, should_anonymize, reportVars, weightVars, serviceVars>>

AnonymizeEvaluatorAgain ==
    /\ pc = "returned"
    /\ evaluation' = result
    /\ result' = anonymize_evaluator(result, requester_role)
    /\ pc' = "again"
    /\ UNCHANGED <<requester_role, can_view, should_anonymize, reportVars, weightVars, serviceVars>>

NextAnon == CheckRole \/ AnonymizeEvaluator \/ AnonymizeEvaluatorAgain

SpecAnon == InitAnon /\ [][NextAnon]_vars

(***************************************************************************)
(* Inputs: reports.                                                        *)
(***************************************************************************)
ReportRoles == { NoneV,
                 StrV(<<"s","t","u","d","e","n","t">>),
                 StrV(<<"I","n","s","t","r","u","c","t","o","r">>),
                 StrV(<<"A","D","M","I","N">>) }

\* A record with its evaluator, and one that carries no evaluator data.
ReportRecords ==
    { ("id" :> IntV(1)) @@ ("evaluator_id" :> IntV(123)) @@
      ("evaluator" :> DictV(John)) @@ ("total_score" :> IntV(85)),
      ("id" :> IntV(2)) @@ ("total_score" :> IntV(90)) }

SeqsUpTo(S, n) == UNION { [1..k -> S] : k \in 0..n }

EvalLists == SeqsUpTo(ReportRecords, MaxEvals) \ {<<>>}

Statistics == [total_evaluations |-> IntV(10), total_members |-> IntV(5)]

Addrs == 1..MaxMembers

\* Member dicts: with the evaluations list l, or without an evaluations key.
MemberDicts(l) ==
    { ("member" :> DictV(Alice)) @@ ("average_score" :> IntV(88)),
      ("member" :> DictV(Alice)) @@ ("average_score" :> IntV(88)) @@
      ("evaluations" :> ListV(l)) }

RefList(lo, hi) == [i \in 1..(hi - lo + 1) |-> RefV(lo + i - 1)]

TeamDict(refs) == ("team" :> DictV([id |-> IntV(1)])) @@ ("members" :> ListV(refs))

\* teams: none, a team without a members key, one team holding every member,
\* or two teams splitting the members after the first.
TeamLists ==
    { <<>>,
      <<("team" :> DictV([id |-> IntV(1)]))>>,
      <<TeamDict(RefList(1, MaxMembers))>>,
      <<TeamDict(RefList(1, 1)), TeamDict(RefList(2, MaxMembers))>> }

Reports(l) ==
    { a @@ b @@ c @@ d @@ e :
        a \in Opt("evaluations", {ListV(<<>>), ListV(l)}),
        b \in Opt("detailed_evaluations", {ListV(l)}),
        c \in Opt("statistics", {DictV(Statistics)}),
        d \in Opt("members", { ListV(RefList(1, k)) : k \in 0..MaxMembers }),
        e \in Opt("teams", { ListV(t) : t \in TeamLists }) }

(***************************************************************************)
(* The report filter as a state machine: a report producer has built a     *)
(* report dict whose members and teams[*].members lists refer to member    *)
(* dicts; the handler passes it to anonymize_report_data.                  *)
(***************************************************************************)
InitReport ==
    /\ pc = "report_ready"
    /\ requester_role \in ReportRoles
    /\ \E l \in EvalLists :
          /\ report_data \in Reports(l)
          /\ members_heap \in [Addrs -> MemberDicts(l)]
    /\ heap_before = members_heap
    /\ report_result = NoResult
    /\ evaluation = EmptyDict
    /\ result = NoResult
    /\ can_view = NoResult
    /\ should_anonymize = NoResult
    /\ num_criteria = 0
    /\ weights = <<>>
    /\ criteria = <<>>
    /\ validation = NoResult
    /\ ServiceIdle

AnonymizeReportData ==
    /\ pc = "report_ready"
    /\ LET out == anonymize_report_data(report_data, members_heap, requester_role)
       IN  /\ report_result' = out.result
           /\ members_heap' = out.heap
    /\ heap_before' = members_heap
    /\ pc' = "report_returned"
    /\ UNCHANGED <<requester_role, report_data, anonVars, weightVars, serviceVars>>

NextReport == AnonymizeReportData

SpecReport == InitReport /\ [][NextReport]_vars

(***************************************************************************)
(* Reports of other shapes: evaluation records under a top-level key       *)
(* outside the fixed set, inside a dict under such a key, and directly     *)
(* under a team dict.  The same handler filters them.                      *)
(***************************************************************************)
\* A team dict holding the evaluation list l itself, with or without members.
ShapedTeams(l) ==
    { <<("team" :> DictV([id |-> IntV(1)])) @@ ("evaluations" :> ListV(l))>>,
      <<TeamDict(RefList(1, MaxMembers)) @@ ("evaluations" :> ListV(l))>> }

ShapedReports(l) ==
    { a @@ b @@ c @@ d :
        a \in Opt("evaluations", {ListV(l)}),
        b \in Opt("peer_evaluations", {ListV(l)}),
        c \in Opt("summary", {DictV("evaluations" :> ListV(l))}),
        d \in Opt("teams", { ListV(t) : t \in ShapedTeams(l) }) }

InitReportShapes ==
    /\ pc = "report_ready"
    /\ requester_role \in ReportRoles
    /\ \E l \in EvalLists :
          /\ report_data \in ShapedReports(l)
          /\ members_heap \in [Addrs -> MemberDicts(l)]
    /\ heap_before = members_heap
    /\ report_result = NoResult
    /\ evaluation = EmptyDict
    /\ result = NoResult
    /\ can_view = NoResult
    /\ should_anonymize = NoResult
    /\ num_criteria = 0
    /\ weights = <<>>
    /\ criteria = <<>>
    /\ validation = NoResult
    /\ ServiceIdle

SpecReportShapes == InitReportShapes /\ [][NextReport]_vars

(***************************************************************************)
(* Inputs: numbers of criteria and criteria lists with weights.            *)
(***************************************************************************)
\* Weights around the limits validate_weights tests: the sum within or just
\* outside 100 +/- 0.01, single weights below 0 and above 100.
WeightNumerals ==
    { Numeral(TRUE,  <<1, 0>>, <<>>),            \* -10
      Numeral(FALSE, <<0>>, <<>>),               \* 0
      Numeral(FALSE, <<3, 3>>, <<3, 3>>),        \* 33.33
      Numeral(FALSE, <<3, 3>>, <<3, 4>>),        \* 33.34
      Numeral(FALSE, <<5, 0>>, <<>>),            \* 50
      Numeral(FALSE, <<5, 0>>, <<0, 1>>),        \* 50.01
      Numeral(FALSE, <<5, 0>>, <<0, 1, 1>>),     \* 50.011
      Numeral(FALSE, <<4, 9>>, <<9, 8, 9>>),     \* 49.989
      Numeral(FALSE, <<1, 0, 0>>, <<0>>),        \* 100.0
      Numeral(FALSE, <<1, 0, 0>>, <<0, 0, 5>>),  \* 100.005
      Numeral(FALSE, <<1, 1, 0>>, <<>>) }        \* 110

Criteria == { ("text" :> StrV("Quality")) } \cup
            { ("text" :> StrV("Quality")) @@ ("weight" :> w) : w \in WeightNumerals }

CriteriaLists == SeqsUpTo(Criteria, MaxWeights)

(***************************************************************************)
(* The weight helpers as a state machine: a caller holds a number of       *)
(* criteria or a criteria list and calls the helper for it.                *)
(***************************************************************************)
InitWeights ==
    /\ pc = "weights_ready"
    /\ \/ num_criteria \in -1..MaxCriteria /\ criteria = <<>>
       \/ num_criteria = 0 /\ criteria \in CriteriaLists
    /\ weights = <<>>
    /\ validation = NoResult
    /\ requester_role = NoneV
    /\ evaluation = EmptyDict
    /\ result = NoResult
    /\ can_view = NoResult
    /\ should_anonymize = NoResult
    /\ report_data = EmptyDict
    /\ report_result = NoResult
    /\ members_heap = <<>>
    /\ heap_before = <<>>
    /\ ServiceIdle

DistributeWeightsEvenly ==
    /\ pc = "weights_ready"
    /\ weights' = distribute_weights_evenly(num_criteria)
    /\ pc' = "distributed"
    /\ UNCHANGED <<requester_role, anonVars, reportVars, num_criteria, criteria, validation, serviceVars>>

ValidateWeights ==
    /\ pc = "weights_ready"
    /\ validation' = validate_weights(criteria)
    /\ pc' = "validated"
    /\ UNCHANGED <<requester_role, anonVars, reportVars, num_criteria, criteria, weights, serviceVars>>

NextWeights == DistributeWeightsEvenly \/ ValidateWeights

SpecWeights == InitWeights /\ [][NextWeights]_vars

(***************************************************************************)
(* Inputs: criteria with weights and max_points, submitted scores.         *)
(***************************************************************************)
W100 == Numeral(FALSE, <<1, 0, 0>>, <<0>>)      \* 100.0
W50 == Numeral(FALSE, <<5, 0>>, <<>>)           \* 50
W150 == Numeral(FALSE, <<1, 5, 0>>, <<>>)       \* 150
WMinus50 == Numeral(TRUE, <<5, 0>>, <<>>)       \* -50
W3333 == Numeral(FALSE, <<3, 3>>, <<3, 3>>)     \* 33.33
W3334 == Numeral(FALSE, <<3, 3>>, <<3, 4>>)     \* 33.34
W25 == Numeral(FALSE, <<2, 5>>, <<0>>)          \* 25.0

\* The weights of a form's criteria: summing to 100 or not, with and without
\* a negative weight.
WeightProfiles ==
    { <<W100>>, <<W50>>,
      <<W50, W50>>, <<W3333, W3334>>, <<W150, WMinus50>>,
      <<W3333, W3333, W3334>>,
      <<W25, W25, W25, W25>> }

MaxPointsChoices == {0, 3, 10}

ScoreValues == {0, 3, 10}

\* What a submission holds for a criterion: no entry, or a raw score.
ScoreChoices == {NoneV} \cup { IntV(v) : v \in ScoreValues }

MaxScores == {-10, 0, 30, 100}

ScoredCriterion(k, w, mp) ==
    ("id" :> k) @@ ("text" :> StrV("Quality")) @@ ("weight" :> w) @@ ("max_points" :> mp)

ScoredCriteriaLists ==
    UNION { { [k \in 1..Len(wp) |-> ScoredCriterion(k, wp[k], mp[k])] :
                mp \in [1..Len(wp) -> MaxPointsChoices] } :
            wp \in { p \in WeightProfiles : Len(p) <= MaxScored } }

\* The score list of a submission: one entry per criterion that has a score,
\* in criteria order.
ScoreList(f) ==
    LET n == Len(f)
        idx == SelectSeq([i \in 1..n |-> i], LAMBDA i : f[i] # NoneV)
    IN  [j \in 1..Len(idx) |-> [criterion_id |-> idx[j], score |-> f[idx[j]][2]]]

HasScore(scs, k) == \E i \in 1..Len(scs) : scs[i].criterion_id = k

ScoreChoice(scs, k) == IF HasScore(scs, k) THEN IntV(ScoreOf(scs, k)) ELSE NoneV

(***************************************************************************)
(* The calculator as a state machine: a handler holds a form's criteria,   *)
(* its max_score and a submission's scores and computes the weighted       *)
(* score; a second submission for the same form differs from the first in  *)
(* one criterion: a higher raw score, or an explicit 0 where the first had  *)
(* no entry.                                                               *)
(***************************************************************************)
InitScore ==
    /\ pc = "score_ready"
    /\ criteria \in ScoredCriteriaLists
    /\ \E f \in [1..Len(criteria) -> ScoreChoices] : scores = ScoreList(f)
    /\ max_score \in MaxScores
    /\ weighted_result = NoResult
    /\ scores_again = <<>>
    /\ weighted_again = NoResult
    /\ requester_role = NoneV
    /\ evaluation = EmptyDict
    /\ result = NoResult
    /\ can_view = NoResult
    /\ should_anonymize = NoResult
    /\ report_data = EmptyDict
    /\ report_result = NoResult
    /\ members_heap = <<>>
    /\ heap_before = <<>>
    /\ num_criteria = 0
    /\ weights = <<>>
    /\ validation = NoResult
    /\ SuggestIdle /\ StoreIdle /\ LateIdle /\ SessionIdle

CalculateWeightedScore ==
    /\ pc = "score_ready"
    /\ weighted_result' = calculate_weighted_score(scores, criteria, max_score)
    /\ pc' = "scored"
    /\ UNCHANGED <<requester_role, sessionVars, anonVars, reportVars, weightVars, scores, max_score,
                   scores_again, weighted_again, suggestVars, storeVars, lateVars>>

CalculateWeightedScoreAgain ==
    /\ pc = "scored"
    /\ \E k \in 1..Len(criteria), v \in ScoreValues :
          /\ IF HasScore(scores, k) THEN v > ScoreOf(scores, k) ELSE v = 0
          /\ scores_again' = ScoreList([i \in 1..Len(criteria) |->
                                          IF i = k THEN IntV(v) ELSE ScoreChoice(scores, i)])
    /\ weighted_again' = calculate_weighted_score(scores_again', criteria, max_score)
    /\ pc' = "rescored"
    /\ UNCHANGED <<requester_role, sessionVars, anonVars, reportVars, weightVars, scores, max_score,
                   weighted_result, suggestVars, storeVars, lateVars>>

NextScore == CalculateWeightedScore \/ CalculateWeightedScoreAgain

SpecScore == InitScore /\ [][NextScore]_vars

(***************************************************************************)
(* The calculator on forms whose max_points do not divide a power of ten:  *)
(* a handler holds such a form's criteria, its max_score and a             *)
(* submission's scores and computes the weighted score.                    *)
(***************************************************************************)
W165 == Numeral(FALSE, <<1, 6>>, <<5>>)         \* 16.5
W835 == Numeral(FALSE, <<8, 3>>, <<5>>)         \* 83.5

\* One criterion of weight 16.5, or that one and one of weight 83.5, with
\* max_points 4 or 12 each.
RoundedCriteriaLists ==
    UNION { { [k \in 1..Len(wp) |-> ScoredCriterion(k, wp[k], mp[k])] :
                mp \in [1..Len(wp) -> {4, 12}] } :
            wp \in { <<W165>>, <<W165, W835>> } }

RoundedScoreChoices == {NoneV, IntV(1), IntV(3), IntV(7)}

InitRounding ==
    /\ pc = "score_ready"
    /\ criteria \in RoundedCriteriaLists
    /\ \E f \in [1..Len(criteria) -> RoundedScoreChoices] : scores = ScoreList(f)
    /\ max_score \in {10, 100}
    /\ weighted_result = NoResult
    /\ scores_again = <<>>
    /\ weighted_again = NoResult
    /\ requester_role = NoneV
    /\ evaluation = EmptyDict
    /\ result = NoResult
    /\ can_view = NoResult
    /\ should_anonymize = NoResult
    /\ report_data = EmptyDict
    /\ report_result = NoResult
    /\ members_heap = <<>>
    /\ heap_before = <<>>
    /\ num_criteria = 0
    /\ weights = <<>>
    /\ validation = NoResult
    /\ SuggestIdle /\ StoreIdle /\ LateIdle /\ SessionIdle

NextRounding == CalculateWeightedScore

SpecRounding == InitRounding /\ [][NextRounding]_vars

(***************************************************************************)
(* The weight suggestions as a state machine: a caller holds a criteria    *)
(* list and an importance mapping (or none) and asks for suggestions.      *)
(***************************************************************************)
ImportanceWords == {"high", "medium", "low", "critical"}

\* An id no criterion has.
UnknownId == 99

ImportanceLevels(n) ==
    {NoneV} \cup
    { DictV(m) : m \in UNION { [S -> ImportanceWords] : S \in SUBSET ((1..n) \cup {UnknownId}) } }

SuggestedCriteria(n) == [k \in 1..n |-> ("id" :> k) @@ ("text" :> StrV("Quality"))]

InitSuggest ==
    /\ pc = "suggest_ready"
    /\ \E n \in 0..MaxSuggested :
          /\ criteria = SuggestedCriteria(n)
          /\ importance_levels \in ImportanceLevels(n)
    /\ suggestions = NoResult
    /\ requester_role = NoneV
    /\ evaluation = EmptyDict
    /\ result = NoResult
    /\ can_view = NoResult
    /\ should_anonymize = NoResult
    /\ report_data = EmptyDict
    /\ report_result = NoResult
    /\ members_heap = <<>>
    /\ heap_before = <<>>
    /\ num_criteria = 0
    /\ weights = <<>>
    /\ validation = NoResult
    /\ ScoreIdle /\ StoreIdle /\ LateIdle /\ SessionIdle

GetWeightSuggestions ==
    /\ pc = "suggest_ready"
    /\ suggestions' = get_weight_suggestions(criteria, importance_levels)
    /\ pc' = "suggested"
    /\ UNCHANGED <<requester_role, sessionVars, anonVars, reportVars, weightVars, scoreVars,
                   importance_levels, storeVars, lateVars>>

NextSuggest == GetWeightSuggestions

SpecSuggest == InitSuggest /\ [][NextSuggest]_vars

(***************************************************************************)
(* forms.py: the form and criterion handlers over the stored tables.       *)
(* A row of evaluation_forms is [id, project_id, max_score, deadline], a   *)
(* row of form_criteria is [id, form_id, max_points, weight]; titles,      *)
(* texts and order_index play no part in the weights and are left out.     *)
(***************************************************************************)
\* Requests that write to the tables in one behaviour.
MaxWrites == 3
\* Criteria in one create_form request.
MaxFormCriteria == 6

\* A float as the text str() gives for it.
FloatV(num) == <<"float", num>>
IsNone(v) == v[1] = "none"

F0 == Numeral(FALSE, <<0>>, <<0>>)           \* 0.0
F50 == Numeral(FALSE, <<5, 0>>, <<0>>)       \* 50.0
Int0 == Numeral(FALSE, <<0>>, <<>>)          \* 0

\* float(d) for a Decimal d of two fraction digits: the shortest numeral
\* that reads back as the same float keeps at least one fraction digit and
\* drops a trailing zero (33.33, 16.7, 50.0).
FloatOfDecimal(d) ==
    LET ds == IF Len(d.coef) < 3 THEN PadLeft(d.coef, 3) ELSE d.coef
        n  == Len(ds)
        fp == IF ds[n] = 0 THEN <<ds[n - 1]>> ELSE <<ds[n - 1], ds[n]>>
    IN  FloatV(Numeral(d.sign = 1, Strip(SubSeq(ds, 1, n - 2)), fp))

\* HTTP answers
Answer(code) == <<"status", code>>

\* The projects table: project 1 exists.
Projects == {1}
ProjectIds == {1, 2}

\* FormCriterion
FormCriterion(mp, w) == [max_points |-> mp, weight |-> w]

FormWeightChoices == {NoneV, FloatV(W100), FloatV(F50)}

FormMaxPoints == 10

\* criteria of a create_form request: without weights up to MaxFormCriteria
\* of them, with weights (all or some) up to two.
FormCriteriaInputs ==
    { [i \in 1..n |-> FormCriterion(FormMaxPoints, NoneV)] : n \in 0..MaxFormCriteria } \cup
    UNION { { [i \in 1..n |-> FormCriterion(FormMaxPoints, w[i])] : w \in [1..n -> FormWeightChoices] } :
            n \in 1..2 }

TotalPoints(cs) == SumInts([i \in 1..Len(cs) |-> cs[i].max_points])

\* criteria_with_weights of create_form
CriteriaWithWeights(cs) ==
    [i \in 1..Len(cs) |->
        ("text" :> StrV("Quality")) @@
        ("weight" :> IF IsNone(cs[i].weight) THEN Int0 ELSE cs[i].weight[2])]

\* The weights create_form stores for the criteria of a request: the
\* supplied ones (None included) when any was supplied, else the even ones.
StoredWeights(cs, even_weights) ==
    [i \in 1..Len(cs) |->
        IF \E j \in 1..Len(cs) : ~IsNone(cs[j].weight)
        THEN cs[i].weight ELSE FloatOfDecimal(even_weights[i])]

\* The rows of form_criteria a request inserts, with ids from the sequence.
NewRows(form_id, cs, ws, first_id) ==
    [i \in 1..Len(cs) |->
        [id |-> first_id + i - 1, form_id |-> form_id,
         max_points |-> cs[i].max_points, weight |-> ws[i]]]

FormExists(forms, form_id) == \E i \in 1..Len(forms) : forms[i].id = form_id

\* select("*").eq("id", criterion_id).eq("form_id", form_id)
Existing(rows, form_id, criterion_id) ==
    { i \in 1..Len(rows) : rows[i].id = criterion_id /\ rows[i].form_id = form_id }

\* the rows left when row i is deleted
Without(rows, i) == SubSeq(rows, 1, i - 1) \o SubSeq(rows, i + 1, Len(rows))

\* CriterionUpdate: fields left out are None
CriterionUpdates ==
    { [max_points |-> mp, weight |-> w] : mp \in {NoneV, IntV(5)}, w \in {NoneV, FloatV(F50)} }

ApplyUpdate(row, upd) ==
    [row EXCEPT !.max_points = IF IsNone(upd.max_points) THEN @ ELSE upd.max_points[2],
                !.weight     = IF IsNone(upd.weight) THEN @ ELSE upd.weight]

\* The parts of the backend the form handlers do not touch.
FilterIdle ==
    /\ requester_role = NoneV
    /\ evaluation = EmptyDict
    /\ result = NoResult
    /\ can_view = NoResult
    /\ should_anonymize = NoResult
    /\ report_data = EmptyDict
    /\ report_result = NoResult
    /\ members_heap = <<>>
    /\ heap_before = <<>>

WeightIdle ==
    /\ num_criteria = 0
    /\ criteria = <<>>
    /\ weights = <<>>
    /\ validation = NoResult

(***************************************************************************)
(* The form handlers as a state machine: the tables start empty and the    *)
(* clients send create_form, add_criterion, update_criterion and           *)
(* delete_criterion requests one after the other.                        *)
(***************************************************************************)
InitForms ==
    /\ pc = "serving"
    /\ FilterIdle /\ WeightIdle /\ ScoreIdle /\ SuggestIdle /\ StoreIdle /\ LateIdle /\ SessionIdle

\* A request that is refused changes nothing but the answer.
Refuse(code) ==
    /\ response' = Answer(code)
    /\ UNCHANGED <<evaluation_forms, form_criteria, form_criteria_id_seq,
                   stored_evaluations, evaluation_scores, writes, evaluation_data>>

CreateForm ==
    /\ pc = "serving"
    /\ writes < MaxWrites
    /\ \E project_id \in ProjectIds, cs \in FormCriteriaInputs, deadline_str \in {NoneV} :
       \E ms \in {TotalPoints(cs), 100} :
          LET has_weights == \E i \in 1..Len(cs) : ~IsNone(cs[i].weight)
              form_id == Len(evaluation_forms) + 1
          IN  IF project_id \notin Projects THEN Refuse(404)
              ELSE IF cs = <<>> THEN Refuse(400)
              ELSE IF TotalPoints(cs) # ms THEN Refuse(400)
              ELSE IF has_weights /\ ~validate_weights(CriteriaWithWeights(cs))[1]
                   THEN Refuse(400)
              ELSE \E even_weights \in {IF has_weights THEN <<>>
                                         ELSE distribute_weights_evenly(Len(cs))} :
                   /\ evaluation_forms' = Append(evaluation_forms,
                          [id |-> form_id, project_id |-> project_id,
                           max_score |-> ms, deadline |-> deadline_str])
                   /\ form_criteria' = form_criteria \o
                          NewRows(form_id, cs, StoredWeights(cs, even_weights),
                                  form_criteria_id_seq + 1)
                   /\ form_criteria_id_seq' = form_criteria_id_seq + Len(cs)
                   /\ response' = Answer(201)
                   /\ writes' = writes + 1
                   /\ UNCHANGED <<stored_evaluations, evaluation_scores, evaluation_data>>
    /\ UNCHANGED <<pc, requester_role, sessionVars, anonVars, reportVars, weightVars, scoreVars,
                   suggestVars, lateVars>>

AddCriterion ==
    /\ pc = "serving"
    /\ writes < MaxWrites
    /\ \E form_id \in 1..(Len(evaluation_forms) + 1), w \in {NoneV, FloatV(F50)} :
          IF ~FormExists(evaluation_forms, form_id) THEN Refuse(404)
          ELSE /\ form_criteria' = Append(form_criteria,
                      [id |-> form_criteria_id_seq + 1, form_id |-> form_id,
                       max_points |-> FormMaxPoints,
                       weight |-> IF IsNone(w) THEN FloatV(F0) ELSE w])
               /\ form_criteria_id_seq' = form_criteria_id_seq + 1
               /\ response' = Answer(201)
               /\ writes' = writes + 1
               /\ UNCHANGED <<evaluation_forms, stored_evaluations, evaluation_scores, evaluation_data>>
    /\ UNCHANGED <<pc, requester_role, sessionVars, anonVars, reportVars, weightVars, scoreVars,
                   suggestVars, lateVars>>

UpdateCriterion ==
    /\ pc = "serving"
    /\ writes < MaxWrites
    /\ \E form_id \in 1..(Len(evaluation_forms) + 1),
          criterion_id \in 1..(form_criteria_id_seq + 1),
          criterion_data \in CriterionUpdates :
          LET existing == Existing(form_criteria, form_id, criterion_id)
          IN  IF existing = {} THEN Refuse(404)
              ELSE IF IsNone(criterion_data.max_points) /\ IsNone(criterion_data.weight)
                   THEN Refuse(400)
              ELSE /\ form_criteria' =
                          [i \in 1..Len(form_criteria) |->
                              IF form_criteria[i].id = criterion_id
                              THEN ApplyUpdate(form_criteria[i], criterion_data)
                              ELSE form_criteria[i]]
                   /\ response' = Answer(200)
                   /\ writes' = writes + 1
                   /\ UNCHANGED <<evaluation_forms, form_criteria_id_seq,
                                  stored_evaluations, evaluation_scores, evaluation_data>>
    /\ UNCHANGED <<pc, requester_role, sessionVars, anonVars, reportVars, weightVars, scoreVars,
                   suggestVars, lateVars>>

DeleteCriterion ==
    /\ pc = "serving"
    /\ writes < MaxWrites
    /\ \E form_id \in 1..(Len(evaluation_forms) + 1),
          criterion_id \in 1..(form_criteria_id_seq + 1) :
          LET existing == Existing(form_criteria, form_id, criterion_id)
              used == { i \in 1..Len(evaluation_scores) :
                            evaluation_scores[i].criterion_id = criterion_id }
          IN  IF existing = {} THEN Refuse(404)
              ELSE IF used # {} THEN Refuse(400)
              ELSE /\ form_criteria' = Without(form_criteria, CHOOSE i \in existing : TRUE)
                   /\ response' = Answer(200)
                   /\ writes' = writes + 1
                   /\ UNCHANGED <<evaluation_forms, form_criteria_id_seq,
                                  stored_evaluations, evaluation_scores, evaluation_data>>
    /\ UNCHANGED <<pc, requester_role, sessionVars, anonVars, reportVars, weightVars, scoreVars,
                   suggestVars, lateVars>>

NextForms == CreateForm \/ AddCriterion \/ UpdateCriterion \/ DeleteCriterion

SpecForms == InitForms /\ [][NextForms]_vars

(***************************************************************************)
(* Timestamps.  The clock counts hours.  An ISO timestamp text is its      *)
(* wall-clock hour and its zone suffix: "Z", "+00:00", "+01:00", or ""     *)
(* for a text without zone.                                                *)
(***************************************************************************)
IsoV(t, zone) == <<"iso", t, zone>>

\* Texts that are no timestamp: "2024-13-45" and "".
NotADate == StrV(<<"2", "0", "2", "4", "-", "1", "3", "-", "4", "5">>)
EmptyStr == StrV(<<>>)

IsRaise(r) == r[1] = "raise"

\* s.replace('Z', '+00:00') on a timestamp text
ReplaceZ(v) == IF v[3] = "Z" THEN IsoV(v[2], "+00:00") ELSE v

\* Hours east of UTC of a zone suffix.
ZoneOffset(zone) == IF zone = "+01:00" THEN 1 ELSE 0

\* datetime.fromisoformat(s.replace('Z', '+00:00')): an aware datetime (as
\* its UTC instant) for a text with zone, a naive one for a text without,
\* ValueError for another text, AttributeError for a value without replace().
ParseIso(v) ==
    IF v[1] = "iso"
    THEN LET s == ReplaceZ(v)
         IN  IF s[3] = "" THEN <<"naive", s[2]>>
             ELSE <<"aware", s[2] - ZoneOffset(s[3])>>
    ELSE IF v[1] = "str" THEN Raise("ValueError")
    ELSE Raise("AttributeError")

\* An exception the handlers' except (ValueError, AttributeError) catches.
Caught(r) == IsRaise(r) /\ r[2] \in {"ValueError", "AttributeError"}

(***************************************************************************)
(* late_submission.py.  _late_submission_permissions is a dict of dicts;   *)
(* it is held as the sequence of its records in iteration order: forms in  *)
(* the order of their first grant, users of a form in the order of theirs. *)
(***************************************************************************)
PermissionAt(perms, form_id, user_id) ==
    { i \in 1..Len(perms) : perms[i].form_id = form_id /\ perms[i].user_id = user_id }

LastOfForm(perms, form_id) ==
    LET of_form == { i \in 1..Len(perms) : perms[i].form_id = form_id }
    IN  IF of_form = {} THEN Len(perms)
        ELSE CHOOSE i \in of_form : \A j \in of_form : j <= i

\* _late_submission_permissions[form_id][user_id] = permission_data; reason
\* and granted_at are left out of the record, nothing reads them.
grant_late_submission(perms, form_id, user_id, allowed_until, granted_by) ==
    LET permission_data == [form_id |-> form_id, user_id |-> user_id,
                            allowed_until |-> allowed_until, granted_by |-> granted_by,
                            is_active |-> TRUE]
        at == PermissionAt(perms, form_id, user_id)
        k  == LastOfForm(perms, form_id)
    IN  IF at # {}
        THEN [i \in 1..Len(perms) |-> IF i \in at THEN permission_data ELSE perms[i]]
        ELSE SubSeq(perms, 1, k) \o <<permission_data>> \o SubSeq(perms, k + 1, Len(perms))

\* A revocation that deactivates every record of the form.
revoke_late_submission_whole_form(perms, form_id, user_id) ==
    LET at == PermissionAt(perms, form_id, user_id)
    IN  IF at = {} THEN <<perms, BoolV(FALSE)>>
        ELSE <<[i \in 1..Len(perms) |->
                   IF perms[i].form_id = form_id
                   THEN [perms[i] EXCEPT !.is_active = FALSE] ELSE perms[i]],
               BoolV(TRUE)>>

\* returns <<the store afterwards, the value returned>>
revoke_late_submission(perms, form_id, user_id) ==
    LET at == PermissionAt(perms, form_id, user_id)
    IN  IF at = {} THEN <<perms, BoolV(FALSE)>>
        ELSE <<[i \in 1..Len(perms) |->
                   IF i \in at THEN [perms[i] EXCEPT !.is_active = FALSE] ELSE perms[i]],
               BoolV(TRUE)>>

\* now <= allowed_until, with now = datetime.now(timezone.utc): comparing an
\* aware datetime with a naive one raises TypeError.
NowLessEq(clock, dt) ==
    IF dt[1] = "naive" THEN Raise("TypeError") ELSE BoolV(clock <= dt[2])

is_late_submission_allowed(perms, form_id, user_id, clock) ==
    LET at == PermissionAt(perms, form_id, user_id)
    IN  IF at = {} THEN BoolV(FALSE)
        ELSE LET permission == perms[CHOOSE i \in at : TRUE]
                 allowed_until == ParseIso(permission.allowed_until)
             IN  IF ~permission.is_active THEN BoolV(FALSE)
                 ELSE IF Caught(allowed_until) THEN BoolV(FALSE)
                 ELSE NowLessEq(clock, allowed_until)

\* The record is returned as a copy; an exception of the check leaves the
\* function.
get_late_submission_permission(perms, form_id, user_id, clock) ==
    LET allowed == is_late_submission_allowed(perms, form_id, user_id, clock)
    IN  IF IsRaise(allowed) THEN allowed
        ELSE IF ~allowed[2] THEN NoneV
        ELSE DictV(perms[CHOOSE i \in PermissionAt(perms, form_id, user_id) : TRUE])

\* The first active record, from position i on, whose allowed_until makes
\* the comparison raise; 0 when there is none.
RECURSIVE FirstNaive(_, _)
FirstNaive(perms, i) ==
    IF i > Len(perms) THEN 0
    ELSE IF perms[i].is_active /\ ParseIso(perms[i].allowed_until)[1] = "naive" THEN i
    ELSE FirstNaive(perms, i + 1)

\* returns <<the store afterwards, cleaned_count or the exception>>: the loop
\* deactivates the expired records it reaches before a comparison raises.
cleanup_expired_permissions(perms, clock) ==
    LET stop == FirstNaive(perms, 1)
        reached == IF stop = 0 THEN 1..Len(perms) ELSE 1..(stop - 1)
        expired == { i \in reached :
                        /\ perms[i].is_active
                        /\ ParseIso(perms[i].allowed_until)[1] = "aware"
                        /\ clock > ParseIso(perms[i].allowed_until)[2] }
    IN  <<[i \in 1..Len(perms) |->
              IF i \in expired THEN [perms[i] EXCEPT !.is_active = FALSE] ELSE perms[i]],
          IF stop = 0 THEN IntV(Cardinality(expired)) ELSE Raise("TypeError")>>

(***************************************************************************)
(* deadline.py                                                             *)
(***************************************************************************)
\* checker: is_late_submission_allowed was passed as late_submission_checker; user_id
\* and form_id are Python values (None when left out).
is_deadline_passed(the_deadline, checker, user_id, form_id, perms, clock) ==
    IF ~Truthy(the_deadline) THEN BoolV(FALSE)
    ELSE LET deadline_dt == ParseIso(the_deadline)
         IN  IF Caught(deadline_dt) THEN BoolV(FALSE)
             ELSE IF IsRaise(NowLessEq(clock, deadline_dt)) THEN NowLessEq(clock, deadline_dt)
             ELSE IF NowLessEq(clock, deadline_dt)[2] THEN BoolV(FALSE)
             ELSE IF checker /\ ~IsNone(user_id) /\ ~IsNone(form_id)
                  THEN LET allowed == is_late_submission_allowed(perms, form_id[2], user_id[2], clock)
                       IN  IF IsRaise(allowed) THEN allowed
                           ELSE IF allowed[2] THEN BoolV(FALSE)
                           ELSE BoolV(TRUE)
             ELSE BoolV(TRUE)

(***************************************************************************)
(* The permission store and the deadline check as a state machine: the     *)
(* clock advances, instructors grant and revoke, the cleanup runs, and a   *)
(* caller asks is_late_submission_allowed or is_deadline_passed.           *)
(***************************************************************************)
\* The clock runs from 0 to MaxTime.
MaxTime == 2
\* Records in the permission store.
MaxPermissions == 2

LateForms == {1, 2}
LateUsers == {"u1", "u2"}
Instructors == {"i1", "i2"}

\* allowed_until of a grant: hour 1 in UTC, the same instant written with
\* an offset, hour 1 without zone, and a text that is no timestamp.
AllowedUntils == {IsoV(1, "Z"), IsoV(2, "+01:00"), IsoV(1, ""), NotADate}

\* deadline of a form
Deadlines == {NoneV, EmptyStr, NotADate, IntV(1), IsoV(1, "Z"), IsoV(1, "+00:00"), IsoV(1, "")}

\* The ways is_deadline_passed is called: <<checker given, user_id, form_id>>.
DeadlineCalls ==
    { <<TRUE, StrV("u1"), IntV(1)>>, <<TRUE, NoneV, IntV(1)>>,
      <<TRUE, StrV("u1"), NoneV>>, <<FALSE, StrV("u1"), IntV(1)>>,
      <<FALSE, NoneV, NoneV>> }

InitLate ==
    /\ pc = "late_running"
    /\ FilterIdle /\ WeightIdle /\ ScoreIdle /\ SuggestIdle /\ StoreIdle /\ LateIdle /\ SessionIdle

GrantLateSubmission ==
    /\ pc = "late_running"
    /\ \E f \in LateForms, u \in LateUsers, until \in AllowedUntils, by \in Instructors :
          /\ PermissionAt(_late_submission_permissions, f, u) # {}
                \/ Len(_late_submission_permissions) < MaxPermissions
          /\ _late_submission_permissions' =
                grant_late_submission(_late_submission_permissions, f, u, until, by)
          /\ late_returned' = NoneV
    /\ UNCHANGED <<pc, requester_role, sessionVars, anonVars, reportVars, weightVars, scoreVars,
                   suggestVars, storeVars, now, deadline, deadline_passed, late_allowed,
                   query_form_id, query_user_id, late_submission_checker>>

RevokeLateSubmission ==
    /\ pc = "late_running"
    /\ \E f \in LateForms, u \in LateUsers :
          LET r == revoke_late_submission(_late_submission_permissions, f, u)
          IN  /\ _late_submission_permissions' = r[1]
              /\ late_returned' = r[2]
    /\ UNCHANGED <<pc, requester_role, sessionVars, anonVars, reportVars, weightVars, scoreVars,
                   suggestVars, storeVars, now, deadline, deadline_passed, late_allowed,
                   query_form_id, query_user_id, late_submission_checker>>

CleanupExpiredPermissions ==
    /\ pc = "late_running"
    /\ LET r == cleanup_expired_permissions(_late_submission_permissions, now)
       IN  /\ _late_submission_permissions' = r[1]
           /\ late_returned' = r[2]
    /\ UNCHANGED <<pc, requester_role, sessionVars, anonVars, reportVars, weightVars, scoreVars,
                   suggestVars, storeVars, now, deadline, deadline_passed, late_allowed,
                   query_form_id, query_user_id, late_submission_checker>>

\* The positions of a caller of the permission functions whose calls are
\* recorded with their arguments.
RevokePcs ==
    {"revoke_running", "granted", "revoked", "cleaned", "allowed_checked", "permission_read"}

\* Time passes.
Tick ==
    /\ pc \in {"late_running", "serving"} \cup RevokePcs
    /\ now < MaxTime
    /\ now' = now + 1
    /\ UNCHANGED <<pc, requester_role, sessionVars, anonVars, reportVars, weightVars, scoreVars,
                   suggestVars, storeVars, _late_submission_permissions, deadline,
                   deadline_passed, late_allowed, query_form_id, query_user_id,
                   late_submission_checker, late_returned>>

IsLateSubmissionAllowed ==
    /\ pc = "late_running"
    /\ \E f \in LateForms, u \in LateUsers :
          /\ query_form_id' = IntV(f)
          /\ query_user_id' = StrV(u)
          /\ late_allowed' = is_late_submission_allowed(_late_submission_permissions, f, u, now)
    /\ pc' = "late_checked"
    /\ UNCHANGED <<requester_role, sessionVars, anonVars, reportVars, weightVars, scoreVars,
                   suggestVars, storeVars, _late_submission_permissions, now, deadline,
                   deadline_passed, late_submission_checker, late_returned>>

IsDeadlinePassed ==
    /\ pc = "late_running"
    /\ \E d \in Deadlines, call \in DeadlineCalls :
          /\ deadline' = d
          /\ late_submission_checker' = call[1]
          /\ query_user_id' = call[2]
          /\ query_form_id' = call[3]
          /\ deadline_passed' = is_deadline_passed(d, call[1], call[2], call[3],
                                                   _late_submission_permissions, now)
    /\ pc' = "deadline_checked"
    /\ UNCHANGED <<requester_role, sessionVars, anonVars, reportVars, weightVars, scoreVars,
                   suggestVars, storeVars, _late_submission_permissions, now,
                   late_allowed, late_returned>>

NextLate ==
    \/ GrantLateSubmission
    \/ RevokeLateSubmission
    \/ CleanupExpiredPermissions
    \/ Tick
    \/ IsLateSubmissionAllowed
    \/ IsDeadlinePassed

SpecLate == InitLate /\ [][NextLate]_vars

(***************************************************************************)
(* Revocation as a state machine: instructors grant and revoke, the        *)
(* cleanup runs, callers ask for a user's permission, and the clock        *)
(* advances.  pc names the call that returned last; query_form_id and      *)
(* query_user_id hold its arguments.                                       *)
(***************************************************************************)
InitRevoke ==
    /\ pc = "revoke_running"
    /\ FilterIdle /\ WeightIdle /\ ScoreIdle /\ SuggestIdle /\ StoreIdle /\ LateIdle /\ SessionIdle

\* The call op(form_id, user_id) returned: the store is perms, the value
\* returned is returned.
Called(op, form_id, user_id, perms, returned) ==
    /\ pc' = op
    /\ query_form_id' = form_id
    /\ query_user_id' = user_id
    /\ _late_submission_permissions' = perms
    /\ late_returned' = returned
    /\ UNCHANGED <<requester_role, sessionVars, anonVars, reportVars, weightVars, scoreVars,
                   suggestVars, storeVars, now, deadline, deadline_passed, late_allowed,
                   late_submission_checker>>

\* allowed_until of a grant: hour 1 in UTC, and hour 1 without zone.
RevokeUntils == {IsoV(1, "Z"), IsoV(1, "")}

Grant ==
    /\ pc \in RevokePcs
    /\ \E f \in LateForms, u \in LateUsers, until \in RevokeUntils :
       /\ PermissionAt(_late_submission_permissions, f, u) # {}
             \/ Len(_late_submission_permissions) < MaxPermissions
       /\ Called("granted", IntV(f), StrV(u),
                 grant_late_submission(_late_submission_permissions, f, u, until, "i1"),
                 NoneV)

Revoke ==
    /\ pc \in RevokePcs
    /\ \E f \in LateForms, u \in LateUsers :
       \E r \in {revoke_late_submission(_late_submission_permissions, f, u)} :
          Called("revoked", IntV(f), StrV(u), r[1], r[2])

Cleanup ==
    /\ pc \in RevokePcs
    /\ \E r \in {cleanup_expired_permissions(_late_submission_permissions, now)} :
       Called("cleaned", NoneV, NoneV, r[1], r[2])

CheckAllowed ==
    /\ pc \in RevokePcs
    /\ \E f \in LateForms, u \in LateUsers :
       Called("allowed_checked", IntV(f), StrV(u), _late_submission_permissions,
              is_late_submission_allowed(_late_submission_permissions, f, u, now))

GetLateSubmissionPermission ==
    /\ pc \in RevokePcs
    /\ \E f \in LateForms, u \in LateUsers :
       Called("permission_read", IntV(f), StrV(u), _late_submission_permissions,
              get_late_submission_permission(_late_submission_permissions, f, u, now))

NextRevoke ==
    \/ Grant
    \/ Revoke
    \/ Cleanup
    \/ CheckAllowed
    \/ GetLateSubmissionPermission
    \/ Tick

SpecRevoke == InitRevoke /\ [][NextRevoke]_vars

(***************************************************************************)
(* evaluations.py: submit_evaluation over the stored tables.               *)
(***************************************************************************)
\* The tables teams, users and team_members: users u1 and u2 are members
\* of team 1, user u3 is not.
Teams == {1}
Users == {"u1", "u2", "u3"}
TeamMembers == { <<1, "u1">>, <<1, "u2">> }

\* EvaluationSubmit; comments are left out.
EvaluationSubmit(form_id, evaluator_id, evaluatee_id, team_id, total_score, scs) ==
    [form_id |-> form_id, evaluator_id |-> evaluator_id, evaluatee_id |-> evaluatee_id,
     team_id |-> team_id, total_score |-> total_score, scores |-> scs]

\* The duplicate check comparing the stored evaluatee with the evaluator.
ExistingEvaluationsOfSelf(evals, data) ==
    { i \in 1..Len(evals) : /\ evals[i].form_id = data.form_id
                            /\ evals[i].evaluator_id = data.evaluator_id
                            /\ evals[i].evaluatee_id = data.evaluator_id }

\* select("id").eq("form_id", ...).eq("evaluator_id", ...).eq("evaluatee_id", ...)
ExistingEvaluations(evals, data) ==
    { i \in 1..Len(evals) : /\ evals[i].form_id = data.form_id
                            /\ evals[i].evaluator_id = data.evaluator_id
                            /\ evals[i].evaluatee_id = data.evaluatee_id }

\* form_criteria.data: the criteria rows of a form as the dicts
\* calculate_weighted_score reads
CriteriaOfForm(rows, form_id) ==
    LET of_form == SelectSeq(rows, LAMBDA r : r.form_id = form_id)
    IN  [i \in 1..Len(of_form) |->
            ("id" :> of_form[i].id) @@ ("text" :> StrV("Quality")) @@
            ("weight" :> of_form[i].weight) @@ ("max_points" :> of_form[i].max_points)]

\* The same with each weight as the text str() gives for it.
CriteriaData(cs) == [i \in 1..Len(cs) |-> [cs[i] EXCEPT !["weight"] = @[2]]]

\* new_evaluation with the id the table gives it, taking the client's total.
NewEvaluationClientTotal(data, id, calculated_total) ==
    [id |-> id, form_id |-> data.form_id, evaluator_id |-> data.evaluator_id,
     evaluatee_id |-> data.evaluatee_id, team_id |-> data.team_id,
     total_score |-> data.total_score * 100]

\* new_evaluation with the id the table gives it; total_score is a float
\* of two decimals, held in hundredths.
NewEvaluation(data, id, calculated_total) ==
    [id |-> id, form_id |-> data.form_id, evaluator_id |-> data.evaluator_id,
     evaluatee_id |-> data.evaluatee_id, team_id |-> data.team_id,
     total_score |-> calculated_total]

\* scores_to_insert
ScoresToInsert(data, evaluation_id) ==
    [i \in 1..Len(data.scores) |->
        [evaluation_id |-> evaluation_id,
         criterion_id |-> data.scores[i].criterion_id,
         score |-> data.scores[i].score]]

(***************************************************************************)
(* Inputs of submit_evaluation.                                            *)
(***************************************************************************)
SubmitFormIds == {1, 9}
SubmitTeamIds == {1, 9}
\* <<evaluator_id, evaluatee_id>>: two pairs of team members, a
\* self-evaluation, an evaluatee outside the team, an unknown evaluator.
SubmitPairs == { <<"u1", "u2">>, <<"u2", "u1">>, <<"u1", "u1">>, <<"u1", "u3">>, <<"u9", "u2">> }
ClientTotals == {0, 999}
Score(criterion_id, score) == [criterion_id |-> criterion_id, score |-> score]
\* scores within the criteria's range, one far above it, one for a criterion
\* of no form
SubmittedScores ==
    { <<Score(1, 5), Score(2, 5)>>, <<Score(1, 150), Score(2, 5)>>, <<Score(1, 5), Score(3, 5)>> }

\* The form the submissions are for, as create_form stores it: two criteria
\* of 5 points and weight 50.0 each, max_score 10.
SubmitForm(form_deadline) ==
    [id |-> 1, project_id |-> 1, max_score |-> 10, deadline |-> form_deadline]
SubmitCriteria ==
    NewRows(1, <<FormCriterion(5, FloatV(F50)), FormCriterion(5, FloatV(F50))>>,
            <<FloatV(F50), FloatV(F50)>>, 1)

\* <<deadline of the form, permission store>>: a deadline at hour 0 with a
\* late permission for u1 until hour 1, and a deadline written without zone.
SubmitScenarios ==
    { <<IsoV(0, "Z"), grant_late_submission(<<>>, 1, "u1", IsoV(1, "Z"), "i1")>>,
      <<IsoV(0, ""), <<>> >> }

(***************************************************************************)
(* submit_evaluation as a state machine: the form exists, time passes, and *)
(* clients send submissions, each handled to completion before the next.   *)
(***************************************************************************)
InitSubmit ==
    /\ pc = "serving"
    /\ FilterIdle /\ WeightIdle /\ ScoreIdle /\ SuggestIdle /\ SessionIdle
    /\ \E sc \in SubmitScenarios :
          /\ evaluation_forms = <<SubmitForm(sc[1])>>
          /\ _late_submission_permissions = sc[2]
    /\ form_criteria = SubmitCriteria
    /\ form_criteria_id_seq = Len(SubmitCriteria)
    /\ stored_evaluations = <<>>
    /\ evaluation_scores = <<>>
    /\ response = NoResult
    /\ evaluation_data = NoneV
    /\ writes = 0
    /\ now = 0
    /\ deadline = NoneV
    /\ deadline_passed = NoResult
    /\ late_allowed = NoResult
    /\ query_form_id = NoneV
    /\ query_user_id = NoneV
    /\ late_submission_checker = FALSE
    /\ late_returned = NoResult

\* A submission that is refused changes nothing but the answer.
RefuseSubmission(code) ==
    /\ response' = Answer(code)
    /\ UNCHANGED <<stored_evaluations, evaluation_scores, writes>>

SubmitEvaluation ==
    /\ pc = "serving"
    /\ writes < MaxWrites
    /\ \E form_id \in SubmitFormIds, pair \in SubmitPairs, team_id \in SubmitTeamIds,
          total_score \in ClientTotals, scs \in SubmittedScores :
          LET data == EvaluationSubmit(form_id, pair[1], pair[2], team_id, total_score, scs)
              form == { i \in 1..Len(evaluation_forms) : evaluation_forms[i].id = form_id }
              form_data == evaluation_forms[CHOOSE i \in form : TRUE]
              passed == is_deadline_passed(form_data.deadline, TRUE,
                                           StrV(data.evaluator_id), IntV(data.form_id),
                                           _late_submission_permissions, now)
              criteria_data == CriteriaOfForm(form_criteria, form_id)
              valid_criterion_ids == { criteria_data[i]["id"] : i \in 1..Len(criteria_data) }
              evaluation_id == Len(stored_evaluations) + 1
          IN  /\ evaluation_data' = data
              /\ IF form = {} THEN RefuseSubmission(404)
                 ELSE IF IsRaise(passed) THEN RefuseSubmission(500)
                 ELSE IF passed[2] THEN RefuseSubmission(403)
                 ELSE IF data.evaluator_id = data.evaluatee_id THEN RefuseSubmission(400)
                 ELSE IF data.team_id \notin Teams THEN RefuseSubmission(404)
                 ELSE IF data.evaluator_id \notin Users THEN RefuseSubmission(404)
                 ELSE IF data.evaluatee_id \notin Users THEN RefuseSubmission(404)
                 ELSE IF ExistingEvaluations(stored_evaluations, data) # {}
                      THEN RefuseSubmission(400)
                 ELSE IF <<data.team_id, data.evaluator_id>> \notin TeamMembers
                      THEN RefuseSubmission(400)
                 ELSE IF <<data.team_id, data.evaluatee_id>> \notin TeamMembers
                      THEN RefuseSubmission(400)
                 ELSE IF \E i \in 1..Len(scs) : scs[i].criterion_id \notin valid_criterion_ids
                      THEN RefuseSubmission(400)
                 ELSE IF \E i \in 1..Len(criteria_data) : IsNone(criteria_data[i]["weight"])
                      THEN RefuseSubmission(500)
                 ELSE \E weighted \in {calculate_weighted_score(scs, CriteriaData(criteria_data),
                                                                form_data.max_score)} :
                         /\ stored_evaluations' = Append(stored_evaluations,
                                NewEvaluation(data, evaluation_id, weighted.weighted_total))
                         /\ evaluation_scores' = evaluation_scores \o
                                ScoresToInsert(data, evaluation_id)
                         /\ response' = Answer(201)
                         /\ writes' = writes + 1
    /\ UNCHANGED <<pc, requester_role, sessionVars, anonVars, reportVars, weightVars, scoreVars,
                   suggestVars, lateVars, evaluation_forms, form_criteria,
                   form_criteria_id_seq>>

NextSubmit == SubmitEvaluation \/ Tick

SpecSubmit == InitSubmit /\ [][NextSubmit]_vars

(***************************************************************************)
(* evaluations.py: list_evaluations and get_evaluation over the stored     *)
(* evaluations.  The team, form and scores a record is enriched with play  *)
(* no part in the filter and are left out.                                 *)
(***************************************************************************)
\* select("id, name, email") of a row of the table users
UserRow(u) == [id |-> StrV(u), name |-> StrV(u), email |-> StrV(u \o "@example.com")]

\* evaluation["evaluator"] = evaluator.data[0] if evaluator.data else None,
\* and the same for the evaluatee
Enriched(row) ==
    LET user(u) == IF u \in Users THEN DictV(UserRow(u)) ELSE NoneV
    IN  ("id" :> IntV(row.id)) @@ ("form_id" :> IntV(row.form_id)) @@
        ("evaluator_id" :> StrV(row.evaluator_id)) @@
        ("evaluatee_id" :> StrV(row.evaluatee_id)) @@
        ("evaluator" :> user(row.evaluator_id)) @@
        ("evaluatee" :> user(row.evaluatee_id))

\* requester_role not in ["instructor", "admin"] if requester_role else True
AnonymizedFlag(role) ==
    BoolV(IF Truthy(role) THEN role[2] \notin privileged_roles ELSE TRUE)

Json(body) == <<"json", body>>

\* The rows in the order of the query: submitted_at descending.
Reverse(s) == [i \in 1..Len(s) |-> s[Len(s) + 1 - i]]

\* form_id is None or a form's id; "if form_id:" skips the filter for None.
list_evaluations(evals, form_id, role) ==
    LET rows == SelectSeq(Reverse(evals),
                          LAMBDA r : Truthy(form_id) => r.form_id = form_id[2])
        evaluations == [i \in 1..Len(rows) |-> Enriched(rows[i])]
        anonymized_evaluations == anonymize_evaluation_list(evaluations, role)
    IN  Json([evaluations |-> anonymized_evaluations,
              count       |-> Len(anonymized_evaluations),
              anonymized  |-> AnonymizedFlag(role)])

get_evaluation(evals, evaluation_id, role) ==
    LET found == SelectSeq(evals, LAMBDA r : r.id = evaluation_id)
    IN  IF found = <<>> THEN Answer(404)
        ELSE Json([evaluation |-> anonymize_evaluator(Enriched(found[1]), role),
                   anonymized |-> AnonymizedFlag(role)])

\* The evaluations stored when the reads begin: one, or two by different
\* evaluators, as submit_evaluation stores them.
ReadableEvaluations ==
    LET stored(id, pair) ==
            NewEvaluation(EvaluationSubmit(1, pair[1], pair[2], 1, 0, <<>>), id, 0)
    IN  { <<stored(1, <<"u1", "u2">>)>>,
          <<stored(1, <<"u1", "u2">>), stored(2, <<"u2", "u1">>)>> }

ReadFormIds == {NoneV, IntV(1)}
ReadEvaluationIds == {1, 2}

InitRead ==
    /\ pc = "reading"
    /\ FilterIdle /\ WeightIdle /\ ScoreIdle /\ SuggestIdle /\ LateIdle /\ SessionIdle
    /\ evaluation_forms = <<SubmitForm(NoneV)>>
    /\ form_criteria = SubmitCriteria
    /\ form_criteria_id_seq = Len(SubmitCriteria)
    /\ stored_evaluations \in ReadableEvaluations
    /\ evaluation_scores = <<>>
    /\ response = NoResult
    /\ evaluation_data = NoneV
    /\ writes = 0

ListEvaluations ==
    /\ pc \in {"reading", "listed", "got"}
    /\ \E form_id \in ReadFormIds, role \in Roles :
          /\ requester_role' = role
          /\ response' = list_evaluations(stored_evaluations, form_id, role)
    /\ pc' = "listed"
    /\ UNCHANGED <<sessionVars, anonVars, reportVars, weightVars, scoreVars, suggestVars,
                   lateVars, evaluation_forms, form_criteria, form_criteria_id_seq,
                   stored_evaluations, evaluation_scores, writes, evaluation_data>>

GetEvaluation ==
    /\ pc \in {"reading", "listed", "got"}
    /\ \E evaluation_id \in ReadEvaluationIds, role \in Roles :
          /\ requester_role' = role
          /\ response' = get_evaluation(stored_evaluations, evaluation_id, role)
    /\ pc' = "got"
    /\ UNCHANGED <<sessionVars, anonVars, reportVars, weightVars, scoreVars, suggestVars,
                   lateVars, evaluation_forms, form_criteria, form_criteria_id_seq,
                   stored_evaluations, evaluation_scores, writes, evaluation_data>>

NextRead == ListEvaluations \/ GetEvaluation

SpecRead == InitRead /\ [][NextRead]_vars

(***************************************************************************)
(* evaluations.py: update_evaluation over the stored tables; comments are  *)
(* left out.                                                               *)
(***************************************************************************)
\* EvaluationUpdate: total_score and scores are None or given.
EvaluationUpdate(total_score, scs) == [total_score |-> total_score, scores |-> scs]

UpdateEvaluationIds == {1, 9}
UpdatedTotals == {NoneV, IntV(7)}
UpdatedScores == {NoneV, ListV(<<Score(1, 1), Score(2, 1)>>)}

\* update(update_data).eq("id", evaluation_id): total_score is held in
\* hundredths.
UpdatedRows(evals, evaluation_id, data) ==
    IF IsNone(data.total_score) THEN evals
    ELSE [i \in 1..Len(evals) |->
            IF evals[i].id = evaluation_id
            THEN [evals[i] EXCEPT !.total_score = data.total_score[2] * 100]
            ELSE evals[i]]

\* delete().eq("evaluation_id", evaluation_id), then one insert per score
ReplacedScores(rows, evaluation_id, data) ==
    IF IsNone(data.scores) THEN rows
    ELSE SelectSeq(rows, LAMBDA r : r.evaluation_id # evaluation_id) \o
         [i \in 1..Len(data.scores[2]) |->
             [evaluation_id |-> evaluation_id,
              criterion_id |-> data.scores[2][i].criterion_id,
              score |-> data.scores[2][i].score]]

UpdateEvaluation ==
    /\ pc = "serving"
    /\ writes < MaxWrites
    /\ \E evaluation_id \in UpdateEvaluationIds, total_score \in UpdatedTotals,
          scs \in UpdatedScores :
          LET data == EvaluationUpdate(total_score, scs)
              existing == { i \in 1..Len(stored_evaluations) :
                               stored_evaluations[i].id = evaluation_id }
          IN  IF existing = {}
              THEN /\ response' = Answer(404)
                   /\ UNCHANGED <<stored_evaluations, evaluation_scores, writes>>
              ELSE /\ stored_evaluations' = UpdatedRows(stored_evaluations, evaluation_id, data)
                   /\ evaluation_scores' = ReplacedScores(evaluation_scores, evaluation_id, data)
                   /\ response' = Answer(200)
                   /\ writes' = writes + 1
    /\ UNCHANGED <<pc, requester_role, sessionVars, anonVars, reportVars, weightVars, scoreVars,
                   suggestVars, lateVars, evaluation_forms, form_criteria,
                   form_criteria_id_seq, evaluation_data>>

NextUpdate == SubmitEvaluation \/ UpdateEvaluation

SpecUpdate == InitSubmit /\ [][NextUpdate]_vars

(***************************************************************************)
(* evaluations.py: submit_evaluation when the tables' service fails.  The  *)
(* two inserts are two requests to the service: the second can raise after *)
(* the first was carried out.                                              *)
(***************************************************************************)
\* The answer the checks of submit_evaluation lead to: the code of the
\* first check that refuses, or 201 when the inserts are reached.
ChecksAnswer(data) ==
    LET form == { i \in 1..Len(evaluation_forms) : evaluation_forms[i].id = data.form_id }
        form_data == evaluation_forms[CHOOSE i \in form : TRUE]
        passed == is_deadline_passed(form_data.deadline, TRUE,
                                     StrV(data.evaluator_id), IntV(data.form_id),
                                     _late_submission_permissions, now)
        criteria_data == CriteriaOfForm(form_criteria, data.form_id)
        valid_criterion_ids == { criteria_data[i]["id"] : i \in 1..Len(criteria_data) }
    IN  IF form = {} THEN 404
        ELSE IF IsRaise(passed) THEN 500
        ELSE IF passed[2] THEN 403
        ELSE IF data.evaluator_id = data.evaluatee_id THEN 400
        ELSE IF data.team_id \notin Teams THEN 404
        ELSE IF data.evaluator_id \notin Users THEN 404
        ELSE IF data.evaluatee_id \notin Users THEN 404
        ELSE IF ExistingEvaluations(stored_evaluations, data) # {} THEN 400
        ELSE IF <<data.team_id, data.evaluator_id>> \notin TeamMembers THEN 400
        ELSE IF <<data.team_id, data.evaluatee_id>> \notin TeamMembers THEN 400
        ELSE IF \E i \in 1..Len(data.scores) :
                   data.scores[i].criterion_id \notin valid_criterion_ids THEN 400
        ELSE IF \E i \in 1..Len(criteria_data) : IsNone(criteria_data[i]["weight"]) THEN 500
        ELSE 201

\* The evaluation row is inserted, then the batch insert of the scores
\* raises: "except Exception" answers 500.
SubmitEvaluationScoresInsertFails ==
    /\ pc = "serving"
    /\ writes < MaxWrites
    /\ \E form_id \in SubmitFormIds, pair \in SubmitPairs, team_id \in SubmitTeamIds,
          total_score \in ClientTotals, scs \in SubmittedScores :
          LET data == EvaluationSubmit(form_id, pair[1], pair[2], team_id, total_score, scs)
              form == { i \in 1..Len(evaluation_forms) : evaluation_forms[i].id = form_id }
              form_data == evaluation_forms[CHOOSE i \in form : TRUE]
              evaluation_id == Len(stored_evaluations) + 1
          IN  /\ ChecksAnswer(data) = 201
              /\ scs # <<>>
              /\ evaluation_data' = data
              /\ \E weighted \in {calculate_weighted_score(
                                        scs, CriteriaData(CriteriaOfForm(form_criteria, form_id)),
                                        form_data.max_score)} :
                     stored_evaluations' = Append(stored_evaluations,
                            NewEvaluation(data, evaluation_id, weighted.weighted_total))
              /\ response' = Answer(500)
              /\ writes' = writes + 1
    /\ UNCHANGED <<pc, requester_role, sessionVars, anonVars, reportVars, weightVars, scoreVars,
                   suggestVars, lateVars, evaluation_forms, form_criteria,
                   form_criteria_id_seq, evaluation_scores>>

NextAtomic == SubmitEvaluation \/ SubmitEvaluationScoresInsertFails

SpecAtomic == InitSubmit /\ [][NextAtomic]_vars

(***************************************************************************)
(* session_timeout.py.  _active_sessions is a dict user_id -> session_data *)
(* and is held as a function on the user ids it has.  The clock counts     *)
(* minutes.  Of session_data the fields user_id, last_activity and         *)
(* timeout_minutes are kept; nothing reads email, role, token, created_at. *)
(***************************************************************************)
\* settings.SESSION_TIMEOUT_MINUTES
SESSION_TIMEOUT_MINUTES == 15

\* returns <<the store afterwards, the value returned>>
create_session(sessions, user_id, clock) ==
    LET session_data == [user_id |-> user_id, last_activity |-> clock,
                         timeout_minutes |-> SESSION_TIMEOUT_MINUTES]
    IN  <<[u \in DOMAIN sessions \cup {user_id} |->
              IF u = user_id THEN session_data ELSE sessions[u]],
          DictV(session_data)>>

\* An expiry test that counts the timeout's own minute as expired.
is_session_expired_at_timeout(sessions, user_id, clock) ==
    IF user_id \notin DOMAIN sessions THEN TRUE
    ELSE clock - sessions[user_id].last_activity >= sessions[user_id].timeout_minutes

is_session_expired(sessions, user_id, clock) ==
    IF user_id \notin DOMAIN sessions THEN TRUE
    ELSE clock - sessions[user_id].last_activity > sessions[user_id].timeout_minutes

\* An update that does not look at the expiry.
update_session_activity_unchecked(sessions, user_id, clock) ==
    IF user_id \notin DOMAIN sessions THEN <<sessions, BoolV(FALSE)>>
    ELSE <<[sessions EXCEPT ![user_id].last_activity = clock], BoolV(TRUE)>>

update_session_activity(sessions, user_id, clock) ==
    IF user_id \notin DOMAIN sessions THEN <<sessions, BoolV(FALSE)>>
    ELSE IF is_session_expired(sessions, user_id, clock) THEN <<sessions, BoolV(FALSE)>>
    ELSE <<[sessions EXCEPT ![user_id].last_activity = clock], BoolV(TRUE)>>

\* _active_sessions.pop(user_id, None)
Pop(sessions, user_id) == [u \in DOMAIN sessions \ {user_id} |-> sessions[u]]

\* _active_sessions.get(user_id)
Get(sessions, user_id) ==
    IF user_id \in DOMAIN sessions THEN DictV(sessions[user_id]) ELSE NoneV

\* A retrieval that leaves the expired session in the store.
get_session_keeps_expired(sessions, user_id, clock) ==
    IF is_session_expired(sessions, user_id, clock) THEN <<sessions, NoneV>>
    ELSE <<sessions, Get(sessions, user_id)>>

get_session(sessions, user_id, clock) ==
    IF is_session_expired(sessions, user_id, clock) THEN <<Pop(sessions, user_id), NoneV>>
    ELSE <<sessions, Get(sessions, user_id)>>

destroy_session(sessions, user_id) ==
    IF user_id \in DOMAIN sessions THEN <<Pop(sessions, user_id), BoolV(TRUE)>>
    ELSE <<sessions, BoolV(FALSE)>>

get_session_info(sessions, user_id) == Get(sessions, user_id)

cleanup_expired_sessions(sessions, clock) ==
    LET expired_user_ids == { u \in DOMAIN sessions : is_session_expired(sessions, u, clock) }
    IN  <<[u \in DOMAIN sessions \ expired_user_ids |-> sessions[u]],
          IntV(Cardinality(expired_user_ids))>>

(***************************************************************************)
(* The session store as a state machine: users log in and out, requests    *)
(* refresh and read sessions, the cleanup runs, and minutes pass.  pc      *)
(* names the call that returned last.                                      *)
(***************************************************************************)
\* The clock runs from 0 to MaxMinutes.
MaxMinutes == 17

SessionUsers == {"u1", "u2"}

SessionPcs ==
    {"session_running", "created", "updated", "expiry_checked", "session_read",
     "destroyed", "info_read", "sessions_cleaned"}

InitSession ==
    /\ pc = "session_running"
    /\ FilterIdle /\ WeightIdle /\ ScoreIdle /\ SuggestIdle /\ StoreIdle /\ LateIdle
    /\ SessionIdle

\* The call op(user_id) returned: the store is sessions, the value returned
\* is returned.
SessionCall(op, user_id, sessions, returned) ==
    /\ pc' = op
    /\ session_user_id' = user_id
    /\ _active_sessions' = sessions
    /\ session_returned' = returned
    /\ UNCHANGED <<requester_role, anonVars, reportVars, weightVars, scoreVars,
                   suggestVars, storeVars, lateVars>>

CreateSession ==
    /\ pc \in SessionPcs
    /\ \E u \in SessionUsers : \E r \in {create_session(_active_sessions, u, now)} :
          SessionCall("created", StrV(u), r[1], r[2])

UpdateSessionActivity ==
    /\ pc \in SessionPcs
    /\ \E u \in SessionUsers : \E r \in {update_session_activity(_active_sessions, u, now)} :
          SessionCall("updated", StrV(u), r[1], r[2])

IsSessionExpired ==
    /\ pc \in SessionPcs
    /\ \E u \in SessionUsers :
          SessionCall("expiry_checked", StrV(u), _active_sessions,
                      BoolV(is_session_expired(_active_sessions, u, now)))

GetSession ==
    /\ pc \in SessionPcs
    /\ \E u \in SessionUsers : \E r \in {get_session(_active_sessions, u, now)} :
          SessionCall("session_read", StrV(u), r[1], r[2])

DestroySession ==
    /\ pc \in SessionPcs
    /\ \E u \in SessionUsers : \E r \in {destroy_session(_active_sessions, u)} :
          SessionCall("destroyed", StrV(u), r[1], r[2])

GetSessionInfo ==
    /\ pc \in SessionPcs
    /\ \E u \in SessionUsers :
          SessionCall("info_read", StrV(u), _active_sessions,
                      get_session_info(_active_sessions, u))

CleanupExpiredSessions ==
    /\ pc \in SessionPcs
    /\ \E r \in {cleanup_expired_sessions(_active_sessions, now)} :
          SessionCall("sessions_cleaned", NoneV, r[1], r[2])

\* A minute passes.
Minute ==
    /\ pc \in SessionPcs
    /\ now < MaxMinutes
    /\ now' = now + 1
    /\ UNCHANGED <<pc, requester_role, anonVars, reportVars, weightVars, scoreVars,
                   suggestVars, storeVars, sessionVars, _late_submission_permissions,
                   deadline, deadline_passed, late_allowed, query_form_id, query_user_id,
                   late_submission_checker, late_returned>>

NextSession ==
    \/ CreateSession
    \/ UpdateSessionActivity
    \/ IsSessionExpired
    \/ GetSession
    \/ DestroySession
    \/ GetSessionInfo
    \/ CleanupExpiredSessions
    \/ Minute

SpecSession == InitSession /\ [][NextSession]_vars

(***************************************************************************)
(* Claims about the single-record filter (checked under SpecAnon).         *)
(***************************************************************************)
\* The role, compared case-insensitively, is exactly "instructor" or "admin":
\* stated letter by letter, without str.lower().
SpelledAs(s, lo, up) ==
    /\ Len(s) = Len(lo)
    /\ \A i \in 1..Len(s) : s[i] = lo[i] \/ s[i] = up[i]

PrivilegedRole(role) ==
    /\ role[1] = "str"
    /\ \/ SpelledAs(role[2], <<"i","n","s","t","r","u","c","t","o","r">>,
                             <<"I","N","S","T","R","U","C","T","O","R">>)
       \/ SpelledAs(role[2], <<"a","d","m","i","n">>, <<"A","D","M","I","N">>)

\* anonymize_evaluator has returned: evaluation is its argument, result its value.
Filtered == pc \in {"returned", "again"}

Has(d, k) == k \in DOMAIN d

C2_DenyByDefault ==
    pc = "checked" =>
        /\ Truthy(can_view) <=> PrivilegedRole(requester_role)
        /\ should_anonymize = BoolV(~PrivilegedRole(requester_role))

C2_Witness ==
    /\ pc = "checked"
    /\ requester_role = StrV(<<"A","d","M","i","N">>)
    /\ Truthy(can_view)
    /\ should_anonymize = BoolV(FALSE)

\* C3: for a privileged role the returned record equals the argument, field
\* for field: evaluator unaltered, no evaluator_id_hidden added.
C3_PrivilegedPassThrough ==
    (Filtered /\ PrivilegedRole(requester_role)) => result = evaluation

C3_Witness ==
    /\ pc = "returned"
    /\ requester_role = StrV(<<"A","D","M","I","N">>)
    /\ Has(evaluation, "evaluator") /\ evaluation["evaluator"] = DictV(John)
    /\ Has(evaluation, "evaluator_id")
    /\ result = evaluation

\* C4: when a record is redacted, evaluator is the only field whose value
\* changes: every other key of the argument is in the result with the same
\* value (evaluator_id included), and the only key that may be added is
\* evaluator_id_hidden.
C4_OnlyEvaluatorRedacted ==
    (Filtered /\ ~PrivilegedRole(requester_role)) =>
        /\ \A k \in DOMAIN evaluation :
              Has(result, k) /\ (k # "evaluator" => result[k] = evaluation[k])
        /\ (DOMAIN result) \ (DOMAIN evaluation) \subseteq {"evaluator_id_hidden"}

C4_Witness ==
    /\ pc = "returned"
    /\ ~PrivilegedRole(requester_role)
    /\ DOMAIN RestOfRecord \subseteq DOMAIN evaluation
    /\ Has(evaluation, "evaluator") /\ evaluation["evaluator"] = DictV(John)
    /\ Has(evaluation, "evaluator_id")
    /\ Has(evaluation, "total_score") /\ Has(evaluation, "comments")
    /\ result["evaluator"] = DictV(Sentinel)
    /\ result["evaluator_id"] = IntV(123)
    /\ ~Has(evaluation, "evaluator_id_hidden") /\ Has(result, "evaluator_id_hidden")

C8_Idempotent ==
    pc = "again" => result = evaluation

C8_Witness ==
    /\ pc = "again"
    /\ ~PrivilegedRole(requester_role)
    /\ Has(evaluation, "evaluator") /\ evaluation["evaluator"] = DictV(Sentinel)
    /\ Has(evaluation, "evaluator_id_hidden")
    /\ result = evaluation

(***************************************************************************)
(* Claims about the report filter (checked under SpecReport).              *)
(***************************************************************************)
\* The value of a report: the dict with every member reference replaced by
\* the member dict the heap h holds for it.
MembersValue(refs, h) == [i \in 1..Len(refs) |-> h[refs[i][2]]]

TeamValue(t, h) ==
    [k \in DOMAIN t |-> IF k = "members" THEN ListV(MembersValue(t[k][2], h)) ELSE t[k]]

ReportValue(r, h) ==
    [k \in DOMAIN r |->
        CASE k = "members" -> ListV(MembersValue(r[k][2], h))
          [] k = "teams"   -> ListV([i \in 1..Len(r[k][2]) |-> TeamValue(r[k][2][i], h)])
          [] OTHER         -> r[k]]

ReportReturned == pc = "report_returned"

\* The report as passed in, as returned, and the passed-in report as it reads
\* after the call.
ReportIn == ReportValue(report_data, heap_before)
ReportOut == ReportValue(report_result, members_heap)
ReportArgAfter == ReportValue(report_data, members_heap)

\* lout is lin with every record that carries an evaluator key showing the sentinel.
EvaluatorsHidden(lin, lout) ==
    /\ Len(lout) = Len(lin)
    /\ \A i \in 1..Len(lin) :
          Has(lin[i], "evaluator") =>
              Has(lout[i], "evaluator") /\ lout[i]["evaluator"] = DictV(Sentinel)

MembersHidden(min, mout) ==
    /\ Len(mout) = Len(min)
    /\ \A i \in 1..Len(min) :
          /\ DOMAIN mout[i] = DOMAIN min[i]
          /\ \A k \in DOMAIN min[i] :
                IF k = "evaluations"
                THEN EvaluatorsHidden(min[i][k][2], mout[i][k][2])
                ELSE mout[i][k] = min[i][k]

TeamsHidden(tin, tout) ==
    /\ Len(tout) = Len(tin)
    /\ \A i \in 1..Len(tin) :
          /\ DOMAIN tout[i] = DOMAIN tin[i]
          /\ \A k \in DOMAIN tin[i] :
                IF k = "members"
                THEN MembersHidden(tin[i][k][2], tout[i][k][2])
                ELSE tout[i][k] = tin[i][k]

\* C6: for a non-privileged role every evaluation record carrying an
\* evaluator key under evaluations, detailed_evaluations,
\* members[*].evaluations or teams[*].members[*].evaluations is returned with
\* the sentinel evaluator, statistics and all other report keys are returned
\* unchanged; for a privileged role the returned report equals the input.
C6_ReportAnonymized ==
    ReportReturned =>
        IF PrivilegedRole(requester_role)
        THEN ReportOut = ReportIn
        ELSE /\ DOMAIN ReportOut = DOMAIN ReportIn
             /\ \A k \in DOMAIN ReportIn :
                   CASE k \in {"evaluations", "detailed_evaluations"} ->
                          EvaluatorsHidden(ReportIn[k][2], ReportOut[k][2])
                     [] k = "members" -> MembersHidden(ReportIn[k][2], ReportOut[k][2])
                     [] k = "teams"   -> TeamsHidden(ReportIn[k][2], ReportOut[k][2])
                     [] OTHER         -> ReportOut[k] = ReportIn[k]

HasEvaluator(l, e) == \E i \in 1..Len(l) : Has(l[i], "evaluator") /\ l[i]["evaluator"] = DictV(e)

MemberShows(m, e) == Has(m, "evaluations") /\ HasEvaluator(m["evaluations"][2], e)

C6_Witness ==
    /\ ReportReturned
    /\ requester_role = StrV(<<"s","t","u","d","e","n","t">>)
    /\ DOMAIN ReportIn = {"evaluations", "detailed_evaluations", "statistics", "members", "teams"}
    /\ HasEvaluator(ReportIn["evaluations"][2], John)
    /\ HasEvaluator(ReportOut["evaluations"][2], Sentinel)
    /\ HasEvaluator(ReportOut["detailed_evaluations"][2], Sentinel)
    /\ Len(ReportIn["teams"][2]) = 2
    /\ \A t \in 1..2 :
          /\ MemberShows(ReportIn["teams"][2][t]["members"][2][1], John)
          /\ MemberShows(ReportOut["teams"][2][t]["members"][2][1], Sentinel)
    /\ ReportOut["statistics"] = DictV(Statistics)

\* C7: the anonymization functions are side-effect-free: after the call the
\* report that was passed in, together with its nested members[*] and
\* teams[*].members[*] entries, has exactly the value it had before the call,
\* for every role.
C7_ArgumentUnchanged ==
    ReportReturned => ReportArgAfter = ReportIn

(***************************************************************************)
(* Claims about the weight helpers (checked under SpecWeights).            *)
(***************************************************************************)

\* A two-decimal weight in hundredths.
Cents(w) == IF w.sign = 1 THEN -DigitsInt(w.coef) ELSE DigitsInt(w.coef)

\* A supplied weight (at most three fraction digits) in thousandths, read
\* off its numeral with machine integers.
Milli(num) ==
    LET v == DigitsInt(num.ip) * 1000 + DigitsInt(SubSeq(num.fp \o <<0, 0, 0>>, 1, 3))
    IN  IF num.neg THEN -v ELSE v

MilliOf(c) == IF Has(c, "weight") THEN Milli(c["weight"]) ELSE 0

\* C9: distribute_weights_evenly(n) returns, for every n >= 1, exactly n
\* two-decimal weights whose sum is exactly 100.00, and the empty list for
\* n = 0.
C9_DistributionSumsTo100 ==
    pc = "distributed" =>
        /\ num_criteria >= 1 =>
              /\ Len(weights) = num_criteria
              /\ \A i \in 1..Len(weights) : weights[i].exp = -2
              /\ SumInts([i \in 1..Len(weights) |-> Cents(weights[i])]) = 10000
        /\ num_criteria = 0 => weights = <<>>

\* C10: validate_weights(criteria) returns (True, "") iff the list is
\* non-empty, the weights sum to 100 within 0.01 and every weight w has
\* 0 <= w <= 100; in every other case it returns (False, msg) with a
\* non-empty msg.
C10_ValidateWeightsExactly ==
    pc = "validated" =>
        LET milli == [i \in 1..Len(criteria) |-> MilliOf(criteria[i])]
            total == SumInts(milli)
            ok == /\ criteria # <<>>
                  /\ total - 100000 <= 10
                  /\ 100000 - total <= 10
                  /\ \A i \in 1..Len(milli) : 0 <= milli[i] /\ milli[i] <= 100000
        IN  IF ok THEN validation = <<TRUE, <<>> >>
            ELSE validation[1] = FALSE /\ validation[2] # <<>>

C10_Witness ==
    /\ pc = "validated"
    /\ Len(criteria) = 2
    /\ MilliOf(criteria[1]) = 50000
    /\ MilliOf(criteria[2]) = 50010
    /\ validation = <<TRUE, <<>> >>

(***************************************************************************)
(* Claims about the calculator (checked under SpecScore).                  *)
(***************************************************************************)
Scored == pc \in {"scored", "rescored"}

\* The weights of the criteria sum to exactly 100 (in thousandths).
WeightsSumTo100(cs) == SumInts([i \in 1..Len(cs) |-> MilliOf(cs[i])]) = 100000

NonNegativeWeights(cs) == \A i \in 1..Len(cs) : MilliOf(cs[i]) >= 0

\* Every criterion has a submitted score, equal to its max_points.
PerfectScores(scs, cs) ==
    \A i \in 1..Len(cs) :
        HasScore(scs, cs[i]["id"]) /\ ScoreOf(scs, cs[i]["id"]) = cs[i]["max_points"]

PositiveMaxPoints(cs) == \A i \in 1..Len(cs) : cs[i]["max_points"] > 0

\* C12 (as stated): for every criteria list whose weights sum to exactly 100
\* and every max_score, if each submitted raw score equals its criterion's
\* max_points then weighted_total == max_score and percentage == 100.
C12_PerfectScoreFullPoints ==
    (Scored /\ WeightsSumTo100(criteria) /\ PerfectScores(scores, criteria))
        => /\ weighted_result.weighted_total = max_score * 100
           /\ weighted_result.percentage = 10000

\* C12 (amended): for every criteria list whose weights sum to exactly 100 and
\* whose max_points are all positive, and every max_score, if each submitted
\* raw score equals its criterion's max_points then weighted_total ==
\* max_score; percentage == 100 when max_score > 0 and 0 otherwise.
C12_PerfectScoreFullPointsPositive ==
    (Scored /\ WeightsSumTo100(criteria) /\ PerfectScores(scores, criteria)
            /\ PositiveMaxPoints(criteria))
        => /\ weighted_result.weighted_total = max_score * 100
           /\ weighted_result.percentage = IF max_score > 0 THEN 10000 ELSE 0

C12_Witness ==
    /\ Scored /\ WeightsSumTo100(criteria) /\ PerfectScores(scores, criteria)
    /\ PositiveMaxPoints(criteria)
    /\ Len(criteria) = 2
    /\ criteria[1]["max_points"] # criteria[2]["max_points"]
    /\ max_score = 30
    /\ weighted_result.weighted_total = 3000
    /\ weighted_result.percentage = 10000

\* scs2 is scs with the raw score of exactly one criterion raised.
Raised(scs, scs2, cs) ==
    \E k \in 1..Len(cs) :
        /\ HasScore(scs, k) /\ HasScore(scs2, k)
        /\ ScoreOf(scs2, k) > ScoreOf(scs, k)
        /\ \A j \in (1..Len(cs)) \ {k} : ScoreChoice(scs2, j) = ScoreChoice(scs, j)

\* C13 (as stated): for every criteria list with non-negative weights and
\* every two score lists that differ only in one criterion's raw score being
\* higher in the second, the weighted_total of the second is greater than or
\* equal to the weighted_total of the first.
C13_MonotonicInEachScore ==
    (pc = "rescored" /\ NonNegativeWeights(criteria) /\ Raised(scores, scores_again, criteria))
        => weighted_again.weighted_total >= weighted_result.weighted_total

\* C13 (amended): the same, for every max_score >= 0.
C13_MonotonicForNonNegativeMaxScore ==
    (pc = "rescored" /\ NonNegativeWeights(criteria) /\ Raised(scores, scores_again, criteria)
                     /\ max_score >= 0)
        => weighted_again.weighted_total >= weighted_result.weighted_total

C13_Witness ==
    /\ pc = "rescored" /\ NonNegativeWeights(criteria) /\ Raised(scores, scores_again, criteria)
    /\ max_score > 0
    /\ Len(criteria) = 2
    /\ weighted_result.weighted_total > 0
    /\ weighted_again.weighted_total > weighted_result.weighted_total

\* scs2 is scs with an explicit score of 0 for one criterion scs has no entry for.
ExplicitZero(scs, scs2, cs) ==
    \E k \in 1..Len(cs) :
        /\ ~HasScore(scs, k)
        /\ ScoreChoice(scs2, k) = IntV(0)
        /\ \A j \in (1..Len(cs)) \ {k} : ScoreChoice(scs2, j) = ScoreChoice(scs, j)

OneEntryPerCriterion(res, cs) ==
    /\ Len(res.breakdown) = Len(cs)
    /\ \A i \in 1..Len(cs) : res.breakdown[i].criterion_id = cs[i]["id"]

\* C14: a criterion with no submitted score is scored zero, never rejected:
\* a score list that omits a criterion yields the same weighted_total,
\* percentage and breakdown (one entry per criterion, in criteria order) as
\* the same list with an explicit score of 0 for that criterion.
C14_MissingScoreIsZero ==
    (pc = "rescored" /\ ExplicitZero(scores, scores_again, criteria))
        => /\ weighted_result.weighted_total = weighted_again.weighted_total
           /\ weighted_result.percentage = weighted_again.percentage
           /\ weighted_result.breakdown = weighted_again.breakdown
           /\ OneEntryPerCriterion(weighted_result, criteria)

C14_Witness ==
    /\ pc = "rescored" /\ ExplicitZero(scores, scores_again, criteria)
    /\ Len(criteria) = 2
    /\ Len(scores) = 1
    /\ weighted_result.weighted_total > 0
    /\ Len(weighted_result.breakdown) = 2

(***************************************************************************)
(* Claims about the weight suggestions (checked under SpecSuggest).        *)
(***************************************************************************)
\* The multiplier of a criterion in halves: high 4, medium 2, low 1, and
\* medium for an unlisted criterion or an unknown word.
HalfUnits(levels, id) ==
    IF levels = NoneV \/ id \notin DOMAIN levels[2] THEN 2
    ELSE CASE levels[2][id] = "high" -> 4
           [] levels[2][id] = "low"  -> 1
           [] OTHER                  -> 2

\* 100 * a / b rounded half up to two decimals, in hundredths (a, b > 0)
ShareCents(a, b) == (2 * 10000 * a + b) \div (2 * b)

StoredMilli(w) == IF IsNone(w) THEN 0 ELSE Milli(w[2])

\* The sum of the weights stored for a form, in thousandths.
FormWeightSum(form_id) ==
    SumInts([i \in 1..Len(form_criteria) |->
                IF form_criteria[i].form_id = form_id
                THEN StoredMilli(form_criteria[i].weight) ELSE 0])

\* C11: after any sequence of successful create_form, add_criterion,
\* update_criterion and delete_criterion calls, the weights of the criteria
\* stored for each form sum to 100 within a tolerance of 0.01.
C11_StoredWeightsSumTo100 ==
    \A i \in 1..Len(evaluation_forms) :
        LET total == FormWeightSum(evaluation_forms[i].id)
        IN  total >= 100000 - 10 /\ total <= 100000 + 10

(***************************************************************************)
(* Claims about the deadline check and the permission store (checked       *)
(* under SpecLate).                                                        *)
(***************************************************************************)
\* A text that parses as a timestamp, and the instant it names (a text
\* without zone read as UTC).
IsTimestamp(v) == v[1] = "iso"
InstantOf(v) == v[2] - ZoneOffset(v[3])

\* C19: is_deadline_passed returns True exactly when the deadline is a
\* parseable timestamp, the current time is strictly later than it, and it
\* is not the case that a checker with non-None user_id and form_id was
\* supplied and returns true for (form_id, user_id); a None, empty or
\* unparseable deadline yields False.
C19_DeadlinePassedExactly ==
    pc = "deadline_checked"
        => deadline_passed =
              BoolV(/\ IsTimestamp(deadline)
                    /\ now > InstantOf(deadline)
                    /\ ~(/\ late_submission_checker
                         /\ ~IsNone(query_user_id)
                         /\ ~IsNone(query_form_id)
                         /\ is_late_submission_allowed(_late_submission_permissions,
                                query_form_id[2], query_user_id[2], now) = BoolV(TRUE)))

\* C20: at any time, after any sequence of grant, revoke and cleanup
\* operations, the store holds at most one record for a (form, user) pair,
\* and is_late_submission_allowed(form, user) is True if and only if a record
\* exists for exactly that pair, is active, and the current time is not later
\* than its allowed_until (inclusive).
C20_AllowedIffActiveUnexpired ==
    /\ \A i, j \in 1..Len(_late_submission_permissions) :
          (/\ _late_submission_permissions[i].form_id = _late_submission_permissions[j].form_id
           /\ _late_submission_permissions[i].user_id = _late_submission_permissions[j].user_id)
             => i = j
    /\ pc = "late_checked"
          => late_allowed =
                BoolV(\E i \in 1..Len(_late_submission_permissions) :
                         LET permission == _late_submission_permissions[i]
                         IN  /\ permission.form_id = query_form_id[2]
                             /\ permission.user_id = query_user_id[2]
                             /\ permission.is_active
                             /\ IsTimestamp(permission.allowed_until)
                             /\ now <= InstantOf(permission.allowed_until))

(***************************************************************************)
(* Claims about submit_evaluation (checked under SpecSubmit).              *)
(***************************************************************************)
FormOf(e) == evaluation_forms[CHOOSE i \in 1..Len(evaluation_forms) :
                                  evaluation_forms[i].id = e.form_id]

\* The raw scores stored for an evaluation.
ScoresOf(e) == SelectSeq(evaluation_scores, LAMBDA r : r.evaluation_id = e.id)

\* C16: every evaluation persisted by a successful submit_evaluation has
\* total_score equal to the weighted_total calculate_weighted_score yields
\* for the submitted scores, the form's stored criteria and the form's
\* max_score, whatever total_score the client sent.
C16_StoredTotalIsWeightedTotal ==
    \A i \in 1..Len(stored_evaluations) :
        LET e == stored_evaluations[i]
        IN  e.total_score =
               calculate_weighted_score(ScoresOf(e),
                   CriteriaData(CriteriaOfForm(form_criteria, e.form_id)),
                   FormOf(e).max_score).weighted_total

\* A submission sent with total_score 999 was stored with the total 10.00.
C16_Witness ==
    /\ response = Answer(201)
    /\ evaluation_data.total_score = 999
    /\ stored_evaluations[Len(stored_evaluations)].total_score = 1000
    /\ stored_evaluations[Len(stored_evaluations)].evaluator_id = evaluation_data.evaluator_id

\* C17: every stored score lies within its criterion's range,
\* 0 <= score <= max_points (a submission with a score outside it is
\* rejected and nothing is stored), and a stored total_score never exceeds
\* the form's max_score.
C17_StoredScoresWithinRange ==
    /\ \A i \in 1..Len(evaluation_scores), j \in 1..Len(form_criteria) :
          form_criteria[j].id = evaluation_scores[i].criterion_id
             => /\ 0 <= evaluation_scores[i].score
                /\ evaluation_scores[i].score <= form_criteria[j].max_points
    /\ \A i \in 1..Len(stored_evaluations) :
          stored_evaluations[i].total_score <= 100 * FormOf(stored_evaluations[i]).max_score

NoSelfEvaluation ==
    \A i \in 1..Len(stored_evaluations) :
        stored_evaluations[i].evaluator_id # stored_evaluations[i].evaluatee_id

OnePerTriple ==
    \A i, j \in 1..Len(stored_evaluations) :
        (/\ stored_evaluations[i].form_id = stored_evaluations[j].form_id
         /\ stored_evaluations[i].evaluator_id = stored_evaluations[j].evaluator_id
         /\ stored_evaluations[i].evaluatee_id = stored_evaluations[j].evaluatee_id)
           => i = j

\* The submission d would break a rule if stored next to evals: it is a
\* self-evaluation, or its (form, evaluator, evaluatee) is stored already.
BreaksARule(d, evals) ==
    \/ d.evaluator_id = d.evaluatee_id
    \/ \E i \in 1..Len(evals) : /\ evals[i].form_id = d.form_id
                                /\ evals[i].evaluator_id = d.evaluator_id
                                /\ evals[i].evaluatee_id = d.evaluatee_id

\* C18: the stored evaluations never hold a self-evaluation nor two records
\* of one (form_id, evaluator_id, evaluatee_id) triple, and a request that
\* would break either rule is answered with 400 and stores nothing.
C18_RuleBreakersAnswered400 ==
    /\ [](NoSelfEvaluation /\ OnePerTriple)
    /\ [][(now' = now /\ BreaksARule(evaluation_data', stored_evaluations))
            => /\ response' = Answer(400)
               /\ UNCHANGED <<stored_evaluations, evaluation_scores>>]_vars

\* The answer to a submission d that would break a rule: the checks that
\* come before the rule's own answer first.
RefusalOf(d) ==
    IF \A i \in 1..Len(evaluation_forms) : evaluation_forms[i].id # d.form_id THEN 404
    ELSE LET passed == is_deadline_passed(FormOf(d).deadline, TRUE, StrV(d.evaluator_id),
                                          IntV(d.form_id), _late_submission_permissions, now)
         IN  IF IsRaise(passed) THEN 500
             ELSE IF passed[2] THEN 403
             ELSE IF d.evaluator_id = d.evaluatee_id THEN 400
             ELSE IF d.team_id \notin Teams \/ d.evaluator_id \notin Users
                        \/ d.evaluatee_id \notin Users THEN 404
             ELSE 400

\* C18 as the code has it: the two rules hold of the stored evaluations, and
\* a request that would break either stores nothing and is answered with
\* 404 when the form does not exist, else 500 when the deadline check raises,
\* else 403 when the deadline has passed for the evaluator, else 400 - for a
\* duplicate only after 404 for a missing team, evaluator or evaluatee.
C18_RuleBreakersRefused ==
    /\ [](NoSelfEvaluation /\ OnePerTriple)
    /\ [][(now' = now /\ BreaksARule(evaluation_data', stored_evaluations))
            => /\ response' = Answer(RefusalOf(evaluation_data'))
               /\ UNCHANGED <<stored_evaluations, evaluation_scores>>]_vars

\* A duplicate was refused with 400, and a self-evaluation can be told from it.
C18_Witness ==
    /\ response = Answer(400)
    /\ evaluation_data.evaluator_id # evaluation_data.evaluatee_id
    /\ \E i \in 1..Len(stored_evaluations) :
          /\ stored_evaluations[i].form_id = evaluation_data.form_id
          /\ stored_evaluations[i].evaluator_id = evaluation_data.evaluator_id
          /\ stored_evaluations[i].evaluatee_id = evaluation_data.evaluatee_id
    /\ evaluation_data.team_id \in Teams

(***************************************************************************)
(* Claims about revocation (checked under SpecRevoke).                     *)
(***************************************************************************)
\* The pair has a record, the record is inactive, and both questions about
\* the pair are answered in the negative.
Revoked(perms, f, u, clock) ==
    /\ \E i \in PermissionAt(perms, f, u) : ~perms[i].is_active
    /\ is_late_submission_allowed(perms, f, u, clock) = BoolV(FALSE)
    /\ get_late_submission_permission(perms, f, u, clock) = NoneV

\* C21: revoke_late_submission(form, user) returns False and changes nothing
\* when the pair has no record; otherwise it returns True, the records of
\* all other pairs are unchanged, and from then on
\* is_late_submission_allowed(form, user) is False and
\* get_late_submission_permission(form, user) is None, through every later
\* call and passage of time, until grant_late_submission is called for the
\* same pair.
C21_RevokeHoldsUntilGrant ==
    /\ [][(pc' = "revoked" /\ now' = now) =>
            LET f == query_form_id'[2]
                u == query_user_id'[2]
                at == PermissionAt(_late_submission_permissions, f, u)
            IN  IF at = {}
                THEN /\ late_returned' = BoolV(FALSE)
                     /\ _late_submission_permissions' = _late_submission_permissions
                ELSE /\ late_returned' = BoolV(TRUE)
                     /\ Revoked(_late_submission_permissions', f, u, now')
                     /\ Len(_late_submission_permissions') = Len(_late_submission_permissions)
                     /\ \A i \in (1..Len(_late_submission_permissions)) \ at :
                           _late_submission_permissions'[i] = _late_submission_permissions[i]
          ]_vars
    /\ [][\A f \in LateForms, u \in LateUsers :
            (/\ Revoked(_late_submission_permissions, f, u, now)
             /\ ~(pc' = "granted" /\ now' = now
                    /\ query_form_id' = IntV(f) /\ query_user_id' = StrV(u)))
               => Revoked(_late_submission_permissions', f, u, now')
          ]_vars

\* A revocation returned True for a permission that was still good, and the
\* permission of another pair is still good afterwards.
C21_Witness ==
    /\ pc = "revoked"
    /\ late_returned = BoolV(TRUE)
    /\ \E i \in 1..Len(_late_submission_permissions) :
          /\ IntV(_late_submission_permissions[i].form_id) = query_form_id
          /\ StrV(_late_submission_permissions[i].user_id) = query_user_id
          /\ _late_submission_permissions[i].allowed_until = IsoV(1, "Z")
          /\ now <= 1
    /\ \E j \in 1..Len(_late_submission_permissions) :
          is_late_submission_allowed(_late_submission_permissions,
                                     _late_submission_permissions[j].form_id,
                                     _late_submission_permissions[j].user_id, now) = BoolV(TRUE)

(***************************************************************************)
(* Claims about the session store (checked under SpecSession).             *)
(***************************************************************************)
\* The store holds no session for the user, or the minutes since the
\* session's last_activity exceed its timeout_minutes.
AbsentOrOverTimeout(sessions, u, clock) ==
    \/ u \notin DOMAIN sessions
    \/ clock - sessions[u].last_activity > sessions[u].timeout_minutes

\* The step is the return of the call op, made now.
Returns(op) == pc' = op /\ now' = now

\* C22: is_session_expired(user) is True if and only if the store holds no
\* session for the user or the time since that session's last_activity is
\* strictly greater than its timeout_minutes - a session whose inactivity
\* equals the timeout is not expired - and the answer for one user depends
\* on that user's session alone.
C22_ExpiredIffAbsentOrOverTimeout ==
    /\ [](\A u \in SessionUsers :
             is_session_expired(_active_sessions, u, now)
                <=> AbsentOrOverTimeout(_active_sessions, u, now))
    /\ [][Returns("expiry_checked") =>
             session_returned' =
                BoolV(AbsentOrOverTimeout(_active_sessions, session_user_id'[2], now))]_vars

\* A session idle for exactly its timeout was reported as not expired while
\* the other user's session, idle for longer, is expired.
C22_Witness ==
    /\ pc = "expiry_checked"
    /\ session_returned = BoolV(FALSE)
    /\ session_user_id[2] \in DOMAIN _active_sessions
    /\ now - _active_sessions[session_user_id[2]].last_activity = SESSION_TIMEOUT_MINUTES
    /\ \E v \in DOMAIN _active_sessions :
          /\ v # session_user_id[2]
          /\ is_session_expired(_active_sessions, v, now)

\* C23: update_session_activity(user) returns False and leaves the store
\* unchanged when the user has no session or the session is expired, and
\* otherwise returns True and sets last_activity to the current time; a
\* user whose session is expired stays expired through every step that is
\* not a create_session for that user.
C23_UpdateOnlyRefreshesLiveSessions ==
    /\ [][Returns("updated") =>
             LET u == session_user_id'[2]
             IN  IF AbsentOrOverTimeout(_active_sessions, u, now)
                 THEN /\ session_returned' = BoolV(FALSE)
                      /\ _active_sessions' = _active_sessions
                 ELSE /\ session_returned' = BoolV(TRUE)
                      /\ _active_sessions' =
                            [_active_sessions EXCEPT ![u].last_activity = now]]_vars
    /\ [][\A u \in SessionUsers :
             (/\ is_session_expired(_active_sessions, u, now)
              /\ ~(Returns("created") /\ session_user_id' = StrV(u)))
                => is_session_expired(_active_sessions', u, now')]_vars

\* An update was refused for a session that is in the store but expired.
C23_Witness ==
    /\ pc = "updated"
    /\ session_returned = BoolV(FALSE)
    /\ session_user_id[2] \in DOMAIN _active_sessions
    /\ now - _active_sessions[session_user_id[2]].last_activity > SESSION_TIMEOUT_MINUTES

\* C27: get_session(user) returns None and removes the user's entry when the
\* session is missing or expired, and returns the stored session without
\* changing the store otherwise; get_session_info(user) never changes the
\* store and returns the raw entry, expired or not; destroy_session(user)
\* removes the entry, and while a user has no entry - until the next
\* create_session for that user - both return None.
C27_ReadsAndRemovals ==
    /\ [][Returns("session_read") =>
             LET u == session_user_id'[2]
             IN  IF AbsentOrOverTimeout(_active_sessions, u, now)
                 THEN /\ session_returned' = NoneV
                      /\ _active_sessions' =
                            [v \in DOMAIN _active_sessions \ {u} |-> _active_sessions[v]]
                 ELSE /\ session_returned' = DictV(_active_sessions[u])
                      /\ _active_sessions' = _active_sessions]_vars
    /\ [][Returns("info_read") =>
             /\ _active_sessions' = _active_sessions
             /\ session_returned' =
                   IF session_user_id'[2] \in DOMAIN _active_sessions
                   THEN DictV(_active_sessions[session_user_id'[2]]) ELSE NoneV]_vars
    /\ [][Returns("destroyed") => session_user_id'[2] \notin DOMAIN _active_sessions']_vars
    /\ [][\A u \in SessionUsers :
             (u \notin DOMAIN _active_sessions
                /\ ~(Returns("created") /\ session_user_id' = StrV(u)))
                => u \notin DOMAIN _active_sessions']_vars
    /\ [](\A u \in SessionUsers :
             u \notin DOMAIN _active_sessions
                => /\ get_session(_active_sessions, u, now)[2] = NoneV
                   /\ get_session_info(_active_sessions, u) = NoneV)

\* get_session_info returned the entry of a session that is expired.
C27_Witness ==
    /\ pc = "info_read"
    /\ session_returned[1] = "dict"
    /\ is_session_expired(_active_sessions, session_user_id[2], now)
    /\ session_user_id[2] \in DOMAIN _active_sessions

(***************************************************************************)
(* Claims about reports of other shapes (checked under SpecReportShapes).  *)
(***************************************************************************)
\* C24: anonymize_report_data examines only evaluations,
\* detailed_evaluations, members[*].evaluations and
\* teams[*].members[*].evaluations: for every role, a non-privileged one
\* included, every other top-level key is returned unchanged and every key
\* of a team dict other than members is returned unchanged, so evaluation
\* records held there keep their original evaluator.
C24_OnlyKnownContainersExamined ==
    ReportReturned =>
        /\ DOMAIN ReportOut = DOMAIN ReportIn
        /\ \A k \in DOMAIN ReportIn \ {"evaluations", "detailed_evaluations", "members", "teams"} :
              ReportOut[k] = ReportIn[k]
        /\ Has(ReportIn, "teams") =>
              /\ Len(ReportOut["teams"][2]) = Len(ReportIn["teams"][2])
              /\ \A i \in 1..Len(ReportIn["teams"][2]) :
                    /\ DOMAIN ReportOut["teams"][2][i] = DOMAIN ReportIn["teams"][2][i]
                    /\ \A k \in DOMAIN ReportIn["teams"][2][i] \ {"members"} :
                          ReportOut["teams"][2][i][k] = ReportIn["teams"][2][i][k]

\* A student was returned a report whose evaluations show the sentinel while
\* its peer_evaluations, its summary and its team still show John.
C24_Witness ==
    /\ ReportReturned
    /\ requester_role = StrV(<<"s","t","u","d","e","n","t">>)
    /\ DOMAIN ReportIn = {"evaluations", "peer_evaluations", "summary", "teams"}
    /\ HasEvaluator(ReportIn["evaluations"][2], John)
    /\ HasEvaluator(ReportOut["evaluations"][2], Sentinel)
    /\ ~HasEvaluator(ReportOut["evaluations"][2], John)
    /\ HasEvaluator(ReportOut["peer_evaluations"][2], John)
    /\ HasEvaluator(ReportOut["summary"][2]["evaluations"][2], John)
    /\ HasEvaluator(ReportOut["teams"][2][1]["evaluations"][2], John)

(***************************************************************************)
(* Claims about rounding (checked under SpecRounding).                     *)
(***************************************************************************)
\* The contribution (score / max_points) * (weight / 100) * max_score of a
\* criterion, in cents, as an exact fraction <<numerator, denominator>>.
ExactCents(scs, c, ms) ==
    IF c["max_points"] > 0
    THEN <<ScoreOf(scs, c["id"]) * MilliOf(c) * ms, c["max_points"] * 1000>>
    ELSE <<0, 1>>

\* The sum of two fractions.
FracAdd(a, b) == <<a[1] * b[2] + b[1] * a[2], a[2] * b[2]>>

RECURSIVE ExactSum(_, _, _, _)
ExactSum(scs, cs, ms, i) ==
    IF i > Len(cs) THEN <<0, 1>>
    ELSE FracAdd(ExactCents(scs, cs[i], ms), ExactSum(scs, cs, ms, i + 1))

\* The fraction f (denominator > 0) rounded to an integer, ties away from zero.
HalfUp(f) ==
    LET a == IF f[1] < 0 THEN -f[1] ELSE f[1]
        q == (2 * a + f[2]) \div (2 * f[2])
    IN  IF f[1] < 0 THEN -q ELSE q

\* C25: weighted_total equals the sum over all criteria of the unrounded
\* contributions (score / max_points) * (weight / 100) * max_score, rounded
\* half-up to 2 decimals once at the end, and each breakdown weighted_score
\* equals that criterion's own contribution rounded half-up; a value exactly
\* halfway between two cents is rounded away from zero.
C25_RoundedHalfUp ==
    pc = "scored" =>
        /\ weighted_result.weighted_total = HalfUp(ExactSum(scores, criteria, max_score, 1))
        /\ \A i \in 1..Len(criteria) :
              weighted_result.breakdown[i].weighted_score =
                 HalfUp(ExactCents(scores, criteria[i], max_score))

(***************************************************************************)
(* Claims about the calculator's guards (checked under SpecScore).         *)
(***************************************************************************)
\* The criteria of cs whose max_points is not 0.
WithPoints(cs) == SelectSeq(cs, LAMBDA c : MaxPointsOf(c) # 0)

\* C26: calculate_weighted_score never divides by zero: it returns a result
\* for every input; a criterion whose max_points is 0 has weighted_score 0
\* and contributes nothing to weighted_total (the total is that of the
\* other criteria alone) whatever score was submitted for it; and when
\* max_score is 0 the percentage is 0.
C26_NeverDividesByZero ==
    pc = "scored" =>
        /\ DOMAIN weighted_result = {"weighted_total", "breakdown", "percentage", "max_score"}
        /\ Len(weighted_result.breakdown) = Len(criteria)
        /\ \A i \in 1..Len(criteria) :
              MaxPointsOf(criteria[i]) = 0 =>
                  weighted_result.breakdown[i].weighted_score = 0
        /\ weighted_result.weighted_total =
              calculate_weighted_score(scores, WithPoints(criteria), max_score).weighted_total
        /\ max_score = 0 => weighted_result.percentage = 0

\* A criterion with max_points 0 and a submitted score of 10 next to a
\* criterion that contributes: the total is above zero.
C26_Witness ==
    /\ pc = "scored"
    /\ max_score = 100
    /\ \E i \in 1..Len(criteria) :
          /\ MaxPointsOf(criteria[i]) = 0
          /\ ScoreOf(scores, criteria[i]["id"]) = 10
          /\ DecCmp(WeightOf(criteria[i]), Dec0) = 1
    /\ weighted_result.weighted_total > 0

(***************************************************************************)
(* Claims about the read handlers (checked under SpecRead).                *)
(***************************************************************************)
IsJson(r) == r[1] = "json"

\* The evaluator of a returned record was replaced by the sentinel.
Redacted(record) == record["evaluator"] = DictV(Sentinel)

\* C28: in the answers of list_evaluations (with at least one record) and
\* of get_evaluation, for every requester_role, anonymized is true exactly
\* when the evaluator of the returned records is the sentinel.
C28_FlagAgreesWithData ==
    /\ (pc = "listed" /\ response[2].count > 0) =>
          (response[2].anonymized = BoolV(TRUE)
              <=> \A i \in 1..response[2].count : Redacted(response[2].evaluations[i]))
    /\ (pc = "got" /\ IsJson(response)) =>
          (response[2].anonymized = BoolV(TRUE) <=> Redacted(response[2].evaluation))

(***************************************************************************)
(* Claims about the stored totals (checked under SpecUpdate).              *)
(***************************************************************************)
\* The scores stored for an evaluation, as calculate_weighted_score reads them.
StoredScores(rows, evaluation_id) ==
    LET of_evaluation == SelectSeq(rows, LAMBDA r : r.evaluation_id = evaluation_id)
    IN  [i \in 1..Len(of_evaluation) |->
            Score(of_evaluation[i].criterion_id, of_evaluation[i].score)]

\* The weighted_total of an evaluation's stored scores under its form's criteria.
TotalOfStoredScores(e) ==
    LET form == { i \in 1..Len(evaluation_forms) : evaluation_forms[i].id = e.form_id }
        form_data == evaluation_forms[CHOOSE i \in form : TRUE]
    IN  calculate_weighted_score(StoredScores(evaluation_scores, e.id),
                                 CriteriaData(CriteriaOfForm(form_criteria, e.form_id)),
                                 form_data.max_score).weighted_total

\* C29: after any sequence of successful submit_evaluation and
\* update_evaluation calls, every stored evaluation's total_score equals the
\* weighted_total of the scores stored for it.
C29_TotalMatchesStoredScores ==
    \A i \in 1..Len(stored_evaluations) :
        stored_evaluations[i].total_score = TotalOfStoredScores(stored_evaluations[i])

(***************************************************************************)
(* Claims about failed submissions (checked under SpecAtomic).             *)
(***************************************************************************)
ErrorAnswers == { Answer(404), Answer(403), Answer(400), Answer(500) }

\* C30: submit_evaluation is all-or-nothing: a submission answered with
\* 404, 403, 400 or 500 leaves the tables evaluations and
\* evaluation_scores as they were.
C30_FailedSubmissionStoresNothing ==
    [][ response' \in ErrorAnswers =>
            UNCHANGED <<stored_evaluations, evaluation_scores>> ]_vars

\* The answer of SubmitEvaluation is the one ChecksAnswer gives.
ChecksAnswerAgrees ==
    [][ evaluation_scores' # evaluation_scores \/ stored_evaluations' = stored_evaluations
            => response' = Answer(ChecksAnswer(evaluation_data')) ]_vars

====
